---- MODULE Spec2Model ----
(***************************************************************************)
(* Model of services/camera_service.py: the FaceDB store and its file, the *)
(* Wakeface feature (detection thread + recognition thread joined by       *)
(* face_queue), its gaze filter check_looking, the RecordFace enrollment   *)
(* loop and the PresenceDetector, and of services/eva_led.py: the EvaLed   *)
(* object, the callers of its set() and its animation threads.             *)
(* Each action is one step of a thread between two accesses to shared      *)
(* state.  Inside get_next_color another thread may run where the body     *)
(* makes a call: at len in Joy and Breath, and at sin, max and round on    *)
(* each line of Rainbow that reads the counter.  The calls of start() and  *)
(* stop() on one object are made one after the other, in any order: a      *)
(* start() on a started feature starts further threads and leaves the      *)
(* earlier ones running.  The threads of a feature occupy slots; a slot is *)
(* reused once its threads have ended.  An embedding is modelled by its    *)
(* first component in tenths, the other 127 components being equal.        *)
(***************************************************************************)
EXTENDS Integers, Sequences, FiniteSets, TLC

VARIABLES
    stopped,        \* Wakeface.stopped (threading.Event)
    face_queue,     \* Wakeface.face_queue: 0 for None, else the queue it names
    queues,         \* the items of each queue.Queue created so far
    w_thread,       \* the slot of _thread_wakeface / _thread_recognizer (0: None)
    pcDet,          \* position of each _run_detector thread
    pcRec,          \* position of each _run_recognize thread
    pcCtl,          \* position of the caller of Wakeface.start / Wakeface.stop
    frame,          \* _run_detector local: the frame captured in this iteration
    det_q,          \* _run_detector: the queue whose get(block=True) it waits in
    item,           \* _run_recognize local: the (frame, bboxes) got from the queue
    rec_q,          \* _run_recognize: the queue whose get(timeout=.5) it is in
    face_history,   \* _run_recognize local dict: name -> count
    hist_src,       \* observation: name -> ids of the frames counted in face_history
    rec_k,          \* recognize local: index of the encoding being matched
    rec_names,      \* recognize local: names list
    matchedIdxs,    \* recognize local: matched indexes of the current encoding
    exc,            \* uncaught exception that ended each thread or call: its type,
                    \* or the call of a collaborator that raised it ("" if none)
    camera_on,      \* CameraService.camera: TRUE after start(...), FALSE after stop(...)
    det_event,      \* last call a detector thread made to the Wakeface callback
    rec_event,      \* last face_recognized call made to the Wakeface callback
    calls,          \* number of start()/stop() calls made so far on the Wakeface
    no_det,         \* observation: ids of the frames that showed no looking face
    listened,       \* observation: ids of the frames face_listen was emitted for
    captured,       \* number of frames the Wakeface detectors have captured
    frame_limit,    \* frames the camera delivers to the detectors before a stop
    db_names,       \* FaceDB.encodings['names']
    db_encodings,   \* FaceDB.encodings['encodings'] (rows)
    db_file,        \* FaceDB.encodings_file: whether it exists, and its rows of text
    db_loaded,      \* FALSE while FaceDB.encodings is None (before the first load)
    pcLoad,         \* position of the caller of FaceDB.load, or how its last
                    \* call ended ("none" before the first)
    load_rows,      \* FaceDB.load local df: the rows read_csv has read
    appendLog,      \* observation: the (name, encoding) pairs given to the store
    r_stopped,      \* RecordFace.stopped
    r_thread,       \* the slot of RecordFace._thread (0: None)
    pcEnr,          \* position of each RecordFace._run thread
    pcRCtl,         \* position of the caller of RecordFace.start / stop
    counter,        \* RecordFace._run local
    enr_name,       \* RecordFace._run argument name
    enr_enc,        \* RecordFace._run local: encoding of the accepted face
    enr_read,       \* FaceDB.append: the array np.append returned at line 36
    accepted,       \* observation: iterations of _run that captured an accepted face
    cancelled,      \* observation: _run left its loop on the stop flag
    appended,       \* observation: FaceDB.append calls of _run that reached the store
    r_captured,     \* number of frames the enrollment loops have captured
    enr_limit,      \* frames the camera delivers to the enrollment loops
    r_events,       \* calls received by the RecordFace callback, in order, from
                    \* the threads that hold a slot
    p_stopped,      \* PresenceDetector.stopped
    p_thread,       \* the slot of PresenceDetector._thread (0: None)
    pcPres,         \* position of each PresenceDetector._run thread
    pcPCtl,         \* position of the caller of PresenceDetector.start / stop
    p_detections,   \* PresenceDetector._run local: whether detections is non-empty
    p_event,        \* last call made to the PresenceDetector callback
    p_captured,     \* number of frames the PresenceDetector threads have captured
    p_limit,        \* frames the camera delivers to the PresenceDetector threads
    thread_limit,   \* slots of each feature: the threads it may have at a time
    set_limit,      \* LedState objects the callers give to EvaLed.set
    g_face,         \* check_looking argument face: the coordinates it reads
    g_incr,         \* check_looking argument incr
    g_looking,      \* value returned by check_looking
    pcGaze,         \* position of a caller of check_looking and of its filter
    led_state,      \* EvaLed.state: the LedState object the animation follows
    leds,           \* matrix_lite led: the argument of the last led.set call
    led_lock,       \* EvaLed.lock: "" when free, else the caller that holds it
    led_stopped,    \* EvaLed.stopped
    led_thread,     \* the slot of EvaLed.thread
    pcRun,          \* position of each EvaLed._run thread
    next_color,     \* EvaLed._run local next_color, and the object that gave it
    gnc,            \* locals of each thread's call of get_next_color
    pcSet,          \* position of each caller of EvaLed.set
    set_arg,        \* EvaLed.set argument ledState of each caller's last call
    pcLedCtl,       \* position of the caller of EvaLed.start / EvaLed.stop
    led_objs        \* number of LedState objects constructed so far

wakeVars == <<stopped, face_queue, queues, w_thread, pcDet, pcRec, pcCtl,
              frame, det_q, item, rec_q, face_history, hist_src, rec_k,
              rec_names, matchedIdxs, calls, no_det, listened, captured>>
eventVars == <<det_event, rec_event>>
enrVars == <<r_stopped, r_thread, pcEnr, pcRCtl, counter, enr_name, enr_enc,
             enr_read, accepted, cancelled,
             appended, r_captured, r_events>>
dbVars == <<db_names, db_encodings, db_file, db_loaded, pcLoad, load_rows,
            appendLog>>
presVars == <<p_stopped, p_thread, pcPres, pcPCtl, p_detections, p_event,
              p_captured>>
gazeVars == <<g_face, g_incr, g_looking, pcGaze>>
ledVars == <<led_state, leds, led_lock, led_stopped, led_thread, pcRun,
             next_color, gnc, pcSet, set_arg, pcLedCtl, led_objs>>
limitVars == <<frame_limit, enr_limit, p_limit, thread_limit, set_limit>>

vars == <<wakeVars, eventVars, enrVars, dbVars, presVars, gazeVars, ledVars,
          limitVars, exc, camera_on>>

----------------------------------------------------------------------------
(* Bounds of the exploration. *)
MaxThreads == 2         \* slots of a feature whose start() is called again
MaxFrames == 4          \* frames delivered to the Wakeface detector
MaxFramesPairs == 0     \* frames that the detectors of two start()s get
                        \* before a stop(); the one after it comes on top
MaxCalls == 3           \* start()/stop() calls on the Wakeface feature
MaxEnrollFrames == 7    \* frames delivered to the enrollment loop
MaxEnrollFramesPairs == 2  \* frames delivered to the loops of two start()s
MaxFramesDB == 2        \* Wakeface frames when both features run together
MaxFramesDBPairs == 1   \* the same, beside the loops of two start()s
MaxEnrollFramesDB == 2  \* enrollment frames when both features run together
MaxEnrollFramesStore == 2  \* enrollment frames between loads of the store
MaxEnrollFramesStorePairs == 1  \* the same, for the loops of two start()s
MaxStoreLen == 3        \* entries of a store given to recognize
MaxFramesRec == 2       \* Wakeface frames recognized against each such store
MaxFramesCamera == 1    \* frames of each feature when two share the camera
MaxCoord == 4           \* largest landmark coordinate given to check_looking
LedLength == 2          \* matrix_lite led.length, the number of LEDs
MaxSets == 2            \* LedState objects given to EvaLed.set
MaxSetsPairs == 1       \* the same, while two animation threads may run
MaxRainbow == 2         \* calls of get_next_color on one Rainbow object

(* Program constants. *)
n_frames == 6           \* RecordFace._run(name, n_frames=6)
Confirmations == 3      \* "count < 3" in _run_recognize
Tolerance == 6          \* compare_faces default tolerance 0.6, in tenths
MaxBright == 255        \* the brightest level of the LED animations

None == "None"          \* Python None used as a name ("unknown")
NoFrame == [id |-> 0, kind |-> "none", faces |-> << >>]
NoItem == [frame |-> 0, bboxes |-> << >>]      \* the tuple (None, [])
EmptyHist == [n \in {} |-> 0]

(* Inputs: what one captured frame shows after detection and check_looking. *)
(* faces holds, per accepted box, the embedding face_encodings will give.   *)
LookFaces == {<<0>>, <<30>>, <<0, 30>>}
StoreEntries == {<<n, e>> : n \in {"alice", "bob"}, e \in {0, 10}}
StoreInputs == UNION {[1..k -> StoreEntries] : k \in 0..MaxStoreLen}
EnrollNames == {"carol"}
PairNames == {"carol", "dave"}   \* names enrolled where two loops may append
StoreNames == {"carol", "NA"}   \* names enrolled in the runs that reload the store
EnrollEncs == {3, 33}
InitNames == <<"alice", "bob">>
InitEncodings == <<0, 10>>

----------------------------------------------------------------------------
(* Helpers. *)
Alive(pc) == pc \notin {"none", "done", "raised"}

\* the slots of the threads of a feature
Threads == 1..MaxThreads

\* the first slot, of those the run may use, whose threads have all ended;
\* 0 when every slot holds a live thread
FreeSlot(free, limit) ==
    IF \E t \in 1..limit : free[t]
    THEN CHOOSE t \in 1..limit : free[t] /\ \A u \in 1..(t - 1) : ~free[u]
    ELSE 0

Range(s) == {s[i] : i \in 1..Len(s)}

\* dict.get(name, 0)
Get(h, n) == IF n \in DOMAIN h THEN h[n] ELSE 0

\* Python truthiness of a name: None and '' are falsy
Falsy(n) == n = None \/ n = ""

\* np.linalg.norm(a - b) for embeddings that differ in one component
Dist(a, b) == IF a >= b THEN a - b ELSE b - a

----------------------------------------------------------------------------
(* Wakeface.check_looking.  The landmarks are numpy floating-point scalars  *)
(* (what the detector's face[...] returns), so the arithmetic is IEEE 754:   *)
(* a division by zero gives an infinity or a nan and does not raise.  Finite *)
(* values are kept as exact fractions with a positive denominator.           *)

Fin(n, d) == [kind |-> "fin", num |-> n, den |-> d]
Inf(negative) == [kind |-> IF negative THEN "-inf" ELSE "inf", num |-> 0, den |-> 1]
NotANumber == [kind |-> "nan", num |-> 0, den |-> 1]
\* what a division that raises stands for (only the variant QDiv_python does)
DivisionError == [kind |-> "ZeroDivisionError", num |-> 0, den |-> 1]

\* a + b and a - b of finite values
QAdd(a, b) == Fin(a.num * b.den + b.num * a.den, a.den * b.den)
QSub(a, b) == Fin(a.num * b.den - b.num * a.den, a.den * b.den)

\* variant: the division of Python floats, which raises on a zero divisor
QDiv_python(a, b) ==
    IF b.num = 0 THEN DivisionError
    ELSE IF b.num > 0
         THEN Fin(a.num * b.den, a.den * b.num)
         ELSE Fin((0 - a.num) * b.den, a.den * (0 - b.num))

\* a / b of finite values: x / 0 is an infinity with the sign of x, 0 / 0 is nan
QDiv(a, b) ==
    IF b.num = 0
    THEN IF a.num = 0 THEN NotANumber ELSE Inf(a.num < 0)
    ELSE IF b.num > 0
         THEN Fin(a.num * b.den, a.den * b.num)
         ELSE Fin((0 - a.num) * b.den, a.den * (0 - b.num))

\* a <= b: false when either side is nan
QLe(a, b) ==
    CASE a.kind = "nan" \/ b.kind = "nan" -> FALSE
      [] a.kind = "-inf" \/ b.kind = "inf" -> TRUE
      [] a.kind = "inf" \/ b.kind = "-inf" -> FALSE
      [] OTHER -> a.num * b.den <= b.num * a.den

\* a < b: false when either side is nan (for the variant check_looking_strict)
QLt(a, b) ==
    CASE a.kind = "nan" \/ b.kind = "nan" -> FALSE
      [] a.kind = "inf" \/ b.kind = "-inf" -> FALSE
      [] a.kind = "-inf" \/ b.kind = "inf" -> TRUE
      [] OTHER -> a.num * b.den < b.num * a.den

\* line 131: incr=0.25
DefaultIncr == Fin(1, 4)

\* lines 142 and 146-147: the normalized nose tip
NormX(face) == QDiv(QSub(face.xn, face.xl), QSub(face.xr, face.xl))
MeanEye(face) == QDiv(QAdd(face.ye1, face.ye2), Fin(2, 1))
NormY(face) == QDiv(QSub(face.yn, MeanEye(face)), QSub(face.ym, MeanEye(face)))

\* a division of check_looking raises (never, with IEEE 754 division)
CheckRaises(face) ==
    \/ NormX(face).kind = "ZeroDivisionError"
    \/ NormY(face).kind = "ZeroDivisionError"

\* variant: the interval bounds are excluded
check_looking_strict(face, incr) ==
    /\ QLt(QAdd(Fin(0, 1), incr), NormX(face)) /\ QLt(NormX(face), QSub(Fin(1, 1), incr))
    /\ QLt(QAdd(Fin(0, 1), incr), NormY(face)) /\ QLt(NormY(face), QSub(Fin(1, 1), incr))

\* lines 133-152; xl, ye become 0 and xr, ym become 1 at lines 143-149
check_looking(face, incr) ==
    /\ QLe(QAdd(Fin(0, 1), incr), NormX(face)) /\ QLe(NormX(face), QSub(Fin(1, 1), incr))
    /\ QLe(QAdd(Fin(0, 1), incr), NormY(face)) /\ QLe(NormY(face), QSub(Fin(1, 1), incr))

\* Inputs: the coordinates check_looking reads from a face, on a grid
Coords == 0..MaxCoord
LandmarkInputs ==
    {[xl |-> Fin(xl, 1), xr |-> Fin(xr, 1), xn |-> Fin(xn, 1),
      ye1 |-> Fin(ye1, 1), ye2 |-> Fin(ye2, 1), ym |-> Fin(ym, 1), yn |-> Fin(yn, 1)] :
        xl \in {0, MaxCoord}, xr \in {0, MaxCoord}, xn \in Coords,
        ye1 \in {0, 2}, ye2 \in {0, 2}, ym \in {1, MaxCoord}, yn \in Coords}
IncrInputs == {Fin(0, 1), Fin(1, 4), Fin(1, 2), Fin(3, 4)}

\* a face looking straight at the camera
NoFace == [xl |-> Fin(0, 1), xr |-> Fin(4, 1), xn |-> Fin(2, 1),
           ye1 |-> Fin(0, 1), ye2 |-> Fin(0, 1), ym |-> Fin(4, 1), yn |-> Fin(2, 1)]

\* lines 131-152: a call of check_looking returns
GazeCall ==
    /\ pcGaze = "call"
    /\ IF CheckRaises(g_face)
       THEN /\ pcGaze' = "raised"
            /\ g_looking' = g_looking
       ELSE /\ pcGaze' = "returned"
            /\ g_looking' = check_looking(g_face, g_incr)
    /\ UNCHANGED <<wakeVars, eventVars, enrVars, dbVars, presVars, g_face,
                   g_incr, ledVars, limitVars, exc, camera_on>>

\* lines 99-111 for a frame whose only detection is this face: the filter
\* (which calls check_looking with the default incr) and the branch taken
GazeFilter ==
    /\ pcGaze = "returned"
    /\ g_incr = DefaultIncr
    /\ pcGaze' = IF g_looking THEN "face_listen" ELSE "face_not_listen"
    /\ UNCHANGED <<wakeVars, eventVars, enrVars, dbVars, presVars, g_face,
                   g_incr, g_looking, ledVars, limitVars, exc, camera_on>>

----------------------------------------------------------------------------
(* FaceDB: the text of a row of the file, and what read_csv makes of it. *)

Abs(v) == IF v < 0 THEN 0 - v ELSE v

\* line 39: str(val), the decimal text of a component given in tenths
Str(v) == [neg |-> v < 0, int |-> Abs(v) \div 10, frac |-> Abs(v) % 10]

\* line 39: the fields joined by ';' (one text stands for the 128 equal ones)
Row(name, encoding) == <<name, Str(encoding)>>

\* line 25: the texts read_csv takes for a missing value (its default
\* na_values that can be typed as a name)
NaTokens == {"", "NA", "N/A", "n/a", "NULL", "null", "NaN", "nan"}

\* the float nan that stands for a missing value in a loaded column
NaN == "float(nan)"

\* lines 25-27: column 0 of the parsed table, as df[0].to_list() returns it
ParseName(text) == IF text \in NaTokens THEN NaN ELSE text

\* lines 25-28: a component parsed back from its decimal text
ParseNum(t) == (IF t.neg THEN 0 - 1 ELSE 1) * (t.int * 10 + t.frac)

----------------------------------------------------------------------------
(* Recognition: the pure parts of _run_recognize and recognize. *)

\* variant: every name, real or not, is re-evaluated until it has 3 confirmations
EpisodeOpen_anyBelow3(h) ==
    \/ DOMAIN h = {}
    \/ \A n \in DOMAIN h : h[n] < Confirmations

\* variant: a None entry never closes the episode
EpisodeOpen_noneNeverCloses(h) ==
    \/ DOMAIN h = {}
    \/ \A n \in DOMAIN h : Falsy(n)

\* line 167: not face_history or all(count < 3 if not name else False ...)
EpisodeOpen(h) ==
    \/ DOMAIN h = {}
    \/ \A n \in DOMAIN h : IF Falsy(n) THEN h[n] < Confirmations ELSE FALSE

\* lines 184-192: compare_faces over the store rows, then the matched indexes
Matches(encs, e) == {i \in 1..Len(encs) : Dist(encs[i], e) <= Tolerance}

\* lines 193-198: the counts dict after the loop over the matched indexes,
\* as the list of its (name, count) items in insertion order
Counts(names, idxs) ==
    LET c[k \in 0..Len(names)] ==
          IF k = 0 THEN << >>
          ELSE IF k \notin idxs THEN c[k - 1]
          ELSE LET pos == {j \in 1..Len(c[k - 1]) : c[k - 1][j][1] = names[k]}
               IN  IF pos = {}
                   THEN Append(c[k - 1], <<names[k], 1>>)
                   ELSE [j \in 1..Len(c[k - 1]) |->
                           IF j \in pos
                           THEN <<names[k], c[k - 1][j][2] + 1>>
                           ELSE c[k - 1][j]]
    IN  c[Len(names)]

\* variant: a later key with an equal count replaces the best one
MaxKey_lastMaximal(counts) ==
    LET best[k \in 1..Len(counts)] ==
          IF k = 1 THEN 1
          ELSE IF counts[k][2] >= counts[best[k - 1]][2] THEN k ELSE best[k - 1]
    IN  counts[best[Len(counts)]][1]

\* line 202: max(counts, key=counts.get) iterates the keys in insertion order
\* and replaces the best one only by a key with a strictly larger count
MaxKey(counts) ==
    LET best[k \in 1..Len(counts)] ==
          IF k = 1 THEN 1
          ELSE IF counts[k][2] > counts[best[k - 1]][2] THEN k ELSE best[k - 1]
    IN  counts[best[Len(counts)]][1]

\* line 166: face_history.clear()
ClearedHistory(h) == EmptyHist

\* variant: the counters are updated in place, so other names keep their entry
UpdatedHistory_inPlace(h, names) ==
    [n \in (DOMAIN h) \cup names |-> IF n \in names THEN Get(h, n) + 1 ELSE h[n]]

\* line 170: {name: face_history.get(name, 0) + 1 for name in names}
UpdatedHistory(h, names) == [n \in names |-> Get(h, n) + 1]

\* a face_recognized call: its usernames argument, and the source frames
Recognized(usernames, src) == [usernames |-> usernames, src |-> src]
NoRecEvent == Recognized(EmptyHist, EmptyHist)        \* no such call yet
NoDetEvent == [name |-> "none", frame |-> 0]          \* no call yet

----------------------------------------------------------------------------
(* Wakeface.start / Wakeface.stop, as run by the thread that owns the feature. *)

\* the items of a queue; face_queue is None until a recognizer has run
Items(q) == IF q = 0 THEN << >> ELSE queues[q]

\* the queues without the items of those that no thread can reach any more:
\* a replaced queue is reachable only by a recognizer that is inside its get
Collect(qs, current, pcs, held) ==
    [q \in 1..Len(qs) |->
        IF q = current \/ \E u \in Threads : pcs[u] = "get" /\ held[u] = q
        THEN qs[q]
        ELSE << >>]

\* a slot whose detector and recognizer have both ended
WakeSlot ==
    FreeSlot([t \in Threads |-> ~Alive(pcDet[t]) /\ ~Alive(pcRec[t])],
             thread_limit.wake)

\* lines 70-76: no check that the feature is stopped; the flag is cleared and
\* _thread_wakeface / _thread_recognizer name two new threads
WStart ==
    /\ pcCtl = "idle"
    /\ calls < MaxCalls
    /\ WakeSlot # 0
    /\ LET t == WakeSlot
       IN  /\ w_thread' = t
           /\ pcDet' = [pcDet EXCEPT ![t] = "camera_start"]
           /\ pcRec' = [pcRec EXCEPT ![t] = "init"]
           /\ exc' = [exc EXCEPT !.det[t] = "", !.rec[t] = ""]
           /\ frame' = [frame EXCEPT ![t] = NoFrame]
           /\ item' = [item EXCEPT ![t] = NoItem]
           /\ face_history' = [face_history EXCEPT ![t] = EmptyHist]
           /\ hist_src' = [hist_src EXCEPT ![t] = EmptyHist]
           /\ rec_k' = [rec_k EXCEPT ![t] = 1]
           /\ rec_names' = [rec_names EXCEPT ![t] = << >>]
           /\ matchedIdxs' = [matchedIdxs EXCEPT ![t] = {}]
    /\ stopped' = FALSE
    /\ calls' = calls + 1
    /\ UNCHANGED <<face_queue, queues, pcCtl, det_q, rec_q, no_det, listened,
                   captured, eventVars, enrVars, dbVars, presVars, gazeVars,
                   ledVars, limitVars, camera_on>>

\* line 121
WStopBegin ==
    /\ pcCtl = "idle"
    /\ calls < MaxCalls
    /\ stopped' = TRUE
    /\ pcCtl' = "join_recognizer"
    /\ calls' = calls + 1
    /\ UNCHANGED <<face_queue, queues, w_thread, pcDet, pcRec, frame, det_q,
                   item, rec_q, face_history, hist_src, rec_k, rec_names,
                   matchedIdxs, no_det, listened, captured, eventVars,
                   enrVars, dbVars, presVars, gazeVars, ledVars, limitVars,
                   exc, camera_on>>

\* lines 122-123: join() returns once the thread _thread_recognizer names
\* has ended
WStopJoinRecognizer ==
    /\ pcCtl = "join_recognizer"
    /\ w_thread # 0 => ~Alive(pcRec[w_thread])
    /\ pcCtl' = "join_wakeface"
    /\ UNCHANGED <<stopped, face_queue, queues, w_thread, pcDet, pcRec, frame,
                   det_q, item, rec_q, face_history, hist_src, rec_k,
                   rec_names, matchedIdxs, calls, no_det, listened, captured,
                   eventVars, enrVars, dbVars, presVars, gazeVars, ledVars,
                   limitVars, exc, camera_on>>

\* lines 125-126: join() returns once the thread _thread_wakeface names has
\* ended
WStopJoinWakeface ==
    /\ pcCtl = "join_wakeface"
    /\ w_thread # 0 => ~Alive(pcDet[w_thread])
    /\ pcCtl' = "camera_stop"
    /\ UNCHANGED <<stopped, face_queue, queues, w_thread, pcDet, pcRec, frame,
                   det_q, item, rec_q, face_history, hist_src, rec_k,
                   rec_names, matchedIdxs, calls, no_det, listened, captured,
                   eventVars, enrVars, dbVars, presVars, gazeVars, ledVars,
                   limitVars, exc, camera_on>>

\* line 128
WStopCamera ==
    /\ pcCtl = "camera_stop"
    /\ camera_on' = FALSE
    /\ pcCtl' = "idle"
    /\ UNCHANGED <<stopped, face_queue, queues, w_thread, pcDet, pcRec, frame,
                   det_q, item, rec_q, face_history, hist_src, rec_k,
                   rec_names, matchedIdxs, calls, no_det, listened, captured,
                   eventVars, enrVars, dbVars, presVars, gazeVars, ledVars,
                   limitVars, exc>>

----------------------------------------------------------------------------
(* Wakeface._run_detector, one action per access to shared state. *)

FrameInputs ==
    {[kind |-> "none", faces |-> << >>], [kind |-> "away", faces |-> << >>]}
    \cup {[kind |-> "look", faces |-> fs] : fs \in LookFaces}

\* line 81
DetCameraStart(t) ==
    /\ pcDet[t] = "camera_start"
    /\ camera_on' = TRUE
    /\ pcDet' = [pcDet EXCEPT ![t] = "loop"]
    /\ UNCHANGED <<stopped, face_queue, queues, w_thread, pcRec, pcCtl, frame,
                   det_q, item, rec_q, face_history, hist_src, rec_k,
                   rec_names, matchedIdxs, calls, no_det, listened, captured,
                   eventVars, enrVars, dbVars, presVars, gazeVars, ledVars,
                   limitVars, exc>>

\* line 83: while not self.stopped.is_set()
DetLoop(t) ==
    /\ pcDet[t] = "loop"
    /\ pcDet' = [pcDet EXCEPT ![t] = IF stopped THEN "done" ELSE "capture"]
    /\ frame' = [frame EXCEPT ![t] = NoFrame]
    /\ UNCHANGED <<stopped, face_queue, queues, w_thread, pcRec, pcCtl, det_q,
                   item, rec_q, face_history, hist_src, rec_k, rec_names,
                   matchedIdxs, calls, no_det, listened, captured, eventVars,
                   enrVars, dbVars, presVars, gazeVars, ledVars, limitVars,
                   exc, camera_on>>

\* lines 85-103: get_color_frame, detect_faces and the check_looking filter.
\* The camera delivers frame_limit frames, and one more to an iteration that
\* is still running when the stop flag is set.
DetCapture(t) ==
    /\ pcDet[t] = "capture"
    /\ captured < frame_limit \/ stopped
    /\ \E f \in FrameInputs :
          /\ frame' = [frame EXCEPT ![t] = [id |-> captured + 1,
                                            kind |-> f.kind, faces |-> f.faces]]
          /\ no_det' = IF f.kind = "look" THEN no_det
                       ELSE no_det \cup {captured + 1}
    /\ captured' = captured + 1
    /\ pcDet' = [pcDet EXCEPT ![t] = "emit"]
    /\ UNCHANGED <<stopped, face_queue, queues, w_thread, pcRec, pcCtl, det_q,
                   item, rec_q, face_history, hist_src, rec_k, rec_names,
                   matchedIdxs, calls, listened, eventVars, enrVars, dbVars,
                   presVars, gazeVars, ledVars, limitVars, exc, camera_on>>

\* lines 85-91 raising: get_color_frame (line 85, the camera) or detect_faces
\* (line 89, the detection model) fails, and nothing catches it
DetCaptureRaises(t) ==
    /\ pcDet[t] = "capture"
    /\ captured < frame_limit \/ stopped
    /\ captured' = captured + 1
    /\ frame' = [frame EXCEPT ![t] = NoFrame]
    /\ pcDet' = [pcDet EXCEPT ![t] = "raised"]
    /\ \E call \in {"get_color_frame", "detect_faces"} :
          exc' = [exc EXCEPT !.det[t] = call]
    /\ UNCHANGED <<stopped, face_queue, queues, w_thread, pcRec, pcCtl, det_q,
                   item, rec_q, face_history, hist_src, rec_k, rec_names,
                   matchedIdxs, calls, no_det, listened, eventVars, enrVars,
                   dbVars, presVars, gazeVars, ledVars, limitVars, camera_on>>

\* variant: the FACES_LOOKING branch publishes without calling the callback
DetEmit_silentLook(t) ==
    /\ pcDet[t] = "emit"
    /\ det_event' = IF frame[t].kind = "look"
                    THEN det_event
                    ELSE [name |-> IF frame[t].kind = "none" THEN "not_faces"
                                   ELSE "face_not_listen",
                          frame |-> frame[t].id]
    /\ pcDet' = [pcDet EXCEPT ![t] =
                    IF frame[t].kind = "look" THEN "put" ELSE "clear"]
    /\ UNCHANGED <<stopped, face_queue, queues, w_thread, pcRec, pcCtl, frame,
                   det_q, item, rec_q, face_history, hist_src, rec_k,
                   rec_names, matchedIdxs, calls, no_det, listened, captured,
                   rec_event, enrVars, dbVars, presVars, gazeVars, ledVars,
                   limitVars, exc, camera_on>>

\* lines 94, 106, 111: the callback of the branch taken
DetEmit(t) ==
    /\ pcDet[t] = "emit"
    /\ det_event' = [name |-> CASE frame[t].kind = "none" -> "not_faces"
                                 [] frame[t].kind = "away" -> "face_not_listen"
                                 [] OTHER -> "face_listen",
                      frame |-> frame[t].id]
    /\ listened' = IF frame[t].kind = "look"
                   THEN listened \cup {frame[t].id}
                   ELSE listened
    /\ pcDet' = [pcDet EXCEPT ![t] =
                    IF frame[t].kind = "look" THEN "put" ELSE "clear"]
    /\ UNCHANGED <<stopped, face_queue, queues, w_thread, pcRec, pcCtl, frame,
                   det_q, item, rec_q, face_history, hist_src, rec_k,
                   rec_names, matchedIdxs, calls, no_det, captured, rec_event,
                   enrVars, dbVars, presVars, gazeVars, ledVars, limitVars,
                   exc, camera_on>>

\* lines 95, 107: while not self.face_queue.empty()
DetClear(t) ==
    /\ pcDet[t] = "clear"
    /\ IF face_queue = 0
       THEN /\ pcDet' = [pcDet EXCEPT ![t] = "raised"]
            /\ exc' = [exc EXCEPT !.det[t] = "AttributeError"]
       ELSE /\ pcDet' = [pcDet EXCEPT ![t] =
                            IF Items(face_queue) = << >> THEN "put" ELSE "get"]
            /\ exc' = exc
    /\ UNCHANGED <<stopped, face_queue, queues, w_thread, pcRec, pcCtl, frame,
                   det_q, item, rec_q, face_history, hist_src, rec_k,
                   rec_names, matchedIdxs, calls, no_det, listened, captured,
                   eventVars, enrVars, dbVars, presVars, gazeVars, ledVars,
                   limitVars, camera_on>>

\* line 95: self.face_queue.get(block=True) takes an item or, on an empty
\* queue, waits in that queue until it holds one; line 107: get(block=False)
\* raises queue.Empty on an empty queue
DetGet(t) ==
    /\ pcDet[t] \in {"get", "blocked"}
    /\ LET q == IF pcDet[t] = "get" THEN face_queue ELSE det_q[t]
       IN  IF Items(q) # << >>
           THEN /\ queues' = [queues EXCEPT ![q] = Tail(@)]
                /\ pcDet' = [pcDet EXCEPT ![t] = "clear"]
                /\ det_q' = [det_q EXCEPT ![t] = 0]
                /\ exc' = exc
           ELSE IF frame[t].kind = "away"
                THEN /\ pcDet' = [pcDet EXCEPT ![t] = "raised"]
                     /\ exc' = [exc EXCEPT !.det[t] = "queue.Empty"]
                     /\ UNCHANGED <<queues, det_q>>
                ELSE /\ pcDet[t] = "get"
                     /\ pcDet' = [pcDet EXCEPT ![t] = "blocked"]
                     /\ det_q' = [det_q EXCEPT ![t] = q]
                     /\ UNCHANGED <<queues, exc>>
    /\ UNCHANGED <<stopped, face_queue, w_thread, pcRec, pcCtl, frame, item,
                   rec_q, face_history, hist_src, rec_k, rec_names,
                   matchedIdxs, calls, no_det, listened, captured, eventVars,
                   enrVars, dbVars, presVars, gazeVars, ledVars, limitVars,
                   camera_on>>

\* lines 96, 108, 117: self.face_queue.put(...)
DetPut(t) ==
    /\ pcDet[t] = "put"
    /\ IF face_queue = 0
       THEN /\ pcDet' = [pcDet EXCEPT ![t] = "raised"]
            /\ exc' = [exc EXCEPT !.det[t] = "AttributeError"]
            /\ queues' = queues
       ELSE /\ queues' =
                   [queues EXCEPT ![face_queue] =
                       Append(@, IF frame[t].kind = "look"
                                 THEN [frame |-> frame[t].id,
                                       bboxes |-> frame[t].faces]
                                 ELSE NoItem)]
            /\ pcDet' = [pcDet EXCEPT ![t] = "loop"]
            /\ exc' = exc
    /\ UNCHANGED <<stopped, face_queue, w_thread, pcRec, pcCtl, frame, det_q,
                   item, rec_q, face_history, hist_src, rec_k, rec_names,
                   matchedIdxs, calls, no_det, listened, captured, eventVars,
                   enrVars, dbVars, presVars, gazeVars, ledVars, limitVars,
                   camera_on>>

Detector(t) ==
    \/ DetCameraStart(t)
    \/ DetLoop(t)
    \/ DetCapture(t)
    \/ DetCaptureRaises(t)
    \/ DetEmit(t)
    \/ DetClear(t)
    \/ DetGet(t)
    \/ DetPut(t)

----------------------------------------------------------------------------
(* Wakeface._run_recognize and Wakeface.recognize. *)

\* lines 155-157: self.face_queue names a new queue
RecInit(t) ==
    /\ pcRec[t] = "init"
    /\ face_queue' = Len(queues) + 1
    /\ queues' = Append(Collect(queues, 0, pcRec, rec_q), << >>)
    /\ face_history' = [face_history EXCEPT ![t] = EmptyHist]
    /\ hist_src' = [hist_src EXCEPT ![t] = EmptyHist]
    /\ pcRec' = [pcRec EXCEPT ![t] = "loop"]
    /\ UNCHANGED <<stopped, w_thread, pcDet, pcCtl, frame, det_q, item, rec_q,
                   rec_k, rec_names, matchedIdxs, calls, no_det, listened,
                   captured, eventVars, enrVars, dbVars, presVars, gazeVars,
                   ledVars, limitVars, exc, camera_on>>

\* line 159: while not self.stopped.is_set(); line 161: self.face_queue is
\* read and its get is entered
RecLoop(t) ==
    /\ pcRec[t] = "loop"
    /\ pcRec' = [pcRec EXCEPT ![t] = IF stopped THEN "done" ELSE "get"]
    /\ rec_q' = [rec_q EXCEPT ![t] = IF stopped THEN 0 ELSE face_queue]
    /\ item' = [item EXCEPT ![t] = NoItem]   \* the locals of the last
    /\ rec_k' = [rec_k EXCEPT ![t] = 1]      \* iteration are dead
    /\ rec_names' = [rec_names EXCEPT ![t] = << >>]
    /\ matchedIdxs' = [matchedIdxs EXCEPT ![t] = {}]
    /\ UNCHANGED <<stopped, face_queue, queues, w_thread, pcDet, pcCtl, frame,
                   det_q, face_history, hist_src, calls, no_det, listened,
                   captured, eventVars, enrVars, dbVars, presVars, gazeVars,
                   ledVars, limitVars, exc, camera_on>>

\* lines 160-163: get(timeout=.5) returns an item of the queue it was called
\* on; queue.Empty -> continue
RecGet(t) ==
    /\ pcRec[t] = "get"
    /\ LET q == rec_q[t]
           taken == Items(q) # << >>
           pcs == [pcRec EXCEPT ![t] = IF taken THEN "process" ELSE "loop"]
       IN  /\ item' = [item EXCEPT ![t] = IF taken THEN Head(Items(q)) ELSE @]
           /\ pcRec' = pcs
           /\ queues' = Collect(IF taken THEN [queues EXCEPT ![q] = Tail(@)]
                                         ELSE queues,
                                face_queue, pcs, rec_q)
    /\ rec_q' = [rec_q EXCEPT ![t] = 0]
    /\ UNCHANGED <<stopped, face_queue, w_thread, pcDet, pcCtl, frame, det_q,
                   face_history, hist_src, rec_k, rec_names, matchedIdxs,
                   calls, no_det, listened, captured, eventVars, enrVars,
                   dbVars, presVars, gazeVars, ledVars, limitVars, exc,
                   camera_on>>

\* lines 165-167 and, when the recognizer runs, lines 175-179
RecProcess(t) ==
    /\ pcRec[t] = "process"
    /\ IF item[t].bboxes = << >>
       THEN /\ face_history' =
                   [face_history EXCEPT ![t] = ClearedHistory(@)]
            /\ hist_src' = [hist_src EXCEPT ![t] = EmptyHist]
            /\ pcRec' = [pcRec EXCEPT ![t] = "loop"]
            /\ UNCHANGED <<rec_k, rec_names>>
       ELSE IF EpisodeOpen(face_history[t])
            THEN /\ rec_k' = [rec_k EXCEPT ![t] = 1]
                 /\ rec_names' = [rec_names EXCEPT ![t] = << >>]
                 /\ pcRec' = [pcRec EXCEPT ![t] = "match"]
                 /\ UNCHANGED <<face_history, hist_src>>
            ELSE /\ pcRec' = [pcRec EXCEPT ![t] = "loop"]
                 /\ UNCHANGED <<face_history, hist_src, rec_k, rec_names>>
    /\ UNCHANGED <<stopped, face_queue, queues, w_thread, pcDet, pcCtl, frame,
                   det_q, item, rec_q, matchedIdxs, calls, no_det, listened,
                   captured, eventVars, enrVars, dbVars, presVars, gazeVars,
                   ledVars, limitVars, exc, camera_on>>

\* line 178 raising (embedding model failure): nothing catches it
RecEncodeRaises(t) ==
    /\ pcRec[t] = "process"
    /\ item[t].bboxes # << >>
    /\ EpisodeOpen(face_history[t])
    /\ pcRec' = [pcRec EXCEPT ![t] = "raised"]
    /\ exc' = [exc EXCEPT !.rec[t] = "face_encodings"]
    /\ UNCHANGED <<stopped, face_queue, queues, w_thread, pcDet, pcCtl, frame,
                   det_q, item, rec_q, face_history, hist_src, rec_k,
                   rec_names, matchedIdxs, calls, no_det, listened, captured,
                   eventVars, enrVars, dbVars, presVars, gazeVars, ledVars,
                   limitVars, camera_on>>

\* the position after the name of encoding rec_k has been appended
NextEncoding(t) ==
    IF rec_k[t] = Len(item[t].bboxes)
    THEN pcRec' = [pcRec EXCEPT ![t] = "update"] /\ rec_k' = rec_k
    ELSE /\ pcRec' = [pcRec EXCEPT ![t] = "match"]
         /\ rec_k' = [rec_k EXCEPT ![t] = @ + 1]

\* lines 184-192 for encoding rec_k: reads FaceDB.encodings["encodings"];
\* lines 186, 205 when nothing matched
RecMatch(t) ==
    /\ pcRec[t] = "match"
    /\ LET idxs == Matches(db_encodings, item[t].bboxes[rec_k[t]])
       IN  IF idxs = {}
           THEN /\ rec_names' = [rec_names EXCEPT ![t] = Append(@, None)]
                /\ matchedIdxs' = [matchedIdxs EXCEPT ![t] = {}]
                /\ NextEncoding(t)
           ELSE /\ matchedIdxs' = [matchedIdxs EXCEPT ![t] = idxs]
                /\ pcRec' = [pcRec EXCEPT ![t] = "resolve"]
                /\ UNCHANGED <<rec_names, rec_k>>
    /\ UNCHANGED <<stopped, face_queue, queues, w_thread, pcDet, pcCtl, frame,
                   det_q, item, rec_q, face_history, hist_src, calls, no_det,
                   listened, captured, eventVars, enrVars, dbVars, presVars,
                   gazeVars, ledVars, limitVars, exc, camera_on>>

\* lines 196-205: reads FaceDB.encodings["names"][i] for the matched indexes
RecResolve(t) ==
    /\ pcRec[t] = "resolve"
    /\ IF \E i \in matchedIdxs[t] : i > Len(db_names)
       THEN /\ pcRec' = [pcRec EXCEPT ![t] = "raised"]
            /\ exc' = [exc EXCEPT !.rec[t] = "IndexError"]
            /\ UNCHANGED <<rec_names, rec_k>>
       ELSE /\ rec_names' = [rec_names EXCEPT ![t] =
                   Append(@, MaxKey(Counts(db_names, matchedIdxs[t])))]
            /\ exc' = exc
            /\ NextEncoding(t)
    /\ UNCHANGED <<stopped, face_queue, queues, w_thread, pcDet, pcCtl, frame,
                   det_q, item, rec_q, face_history, hist_src, matchedIdxs,
                   calls, no_det, listened, captured, eventVars, enrVars,
                   dbVars, presVars, gazeVars, ledVars, limitVars, camera_on>>

\* lines 168-171: set(names), the new face_history, the callback
RecUpdate(t) ==
    /\ pcRec[t] = "update"
    /\ LET names == Range(rec_names[t])
           h == UpdatedHistory(face_history[t], names)
           src == [n \in names |->
                     (IF n \in DOMAIN hist_src[t] THEN hist_src[t][n] ELSE {})
                     \cup {item[t].frame}]
       IN  /\ face_history' = [face_history EXCEPT ![t] = h]
           /\ hist_src' = [hist_src EXCEPT ![t] = src]
           /\ rec_event' = Recognized(h, src)
    /\ pcRec' = [pcRec EXCEPT ![t] = "loop"]
    /\ UNCHANGED <<stopped, face_queue, queues, w_thread, pcDet, pcCtl, frame,
                   det_q, item, rec_q, rec_k, rec_names, matchedIdxs, calls,
                   no_det, listened, captured, det_event, enrVars, dbVars,
                   presVars, gazeVars, ledVars, limitVars, exc, camera_on>>

Recognizer(t) ==
    \/ RecInit(t)
    \/ RecLoop(t)
    \/ RecGet(t)
    \/ RecProcess(t)
    \/ RecEncodeRaises(t)
    \/ RecMatch(t)
    \/ RecResolve(t)
    \/ RecUpdate(t)

WakefaceStop == WStopJoinRecognizer \/ WStopJoinWakeface \/ WStopCamera

----------------------------------------------------------------------------
(* RecordFace: start, stop and the enrollment loop _run; FaceDB.append. *)

\* progress=counter*100/n_frames, a true division: kept as a fraction
Progress(c) == [num |-> c * 100, den |-> n_frames]

\* a recording_face call: the thread that made it, and its progress argument
Recording(t, c) == [thread |-> t, progress |-> Progress(c)]

\* the progress values a thread has passed to the callback, in order
ProgressOf(t) ==
    LET mine == SelectSeq(r_events, LAMBDA e : e.thread = t)
    IN  [i \in 1..Len(mine) |-> mine[i].progress]

\* a slot whose enrollment thread has ended
EnrSlot == FreeSlot([t \in Threads |-> ~Alive(pcEnr[t])], thread_limit.enr)

\* lines 222-226, for a name of the given set: no check that no enrollment
\* runs; the flag is cleared and _thread names a new thread
RStartWith(names) ==
    /\ pcRCtl = "idle"
    /\ EnrSlot # 0
    /\ LET t == EnrSlot
       IN  /\ r_thread' = t
           /\ \E name \in names : enr_name' = [enr_name EXCEPT ![t] = name]
           /\ pcEnr' = [pcEnr EXCEPT ![t] = "camera_start"]
           /\ counter' = [counter EXCEPT ![t] = 0]
           /\ enr_enc' = [enr_enc EXCEPT ![t] = 0]
           /\ accepted' = [accepted EXCEPT ![t] = 0]
           /\ cancelled' = [cancelled EXCEPT ![t] = FALSE]
           /\ appended' = [appended EXCEPT ![t] = 0]
           /\ r_events' = SelectSeq(r_events, LAMBDA e : e.thread # t)
           /\ exc' = [exc EXCEPT !.enr[t] = ""]
    /\ r_stopped' = FALSE
    /\ UNCHANGED <<wakeVars, eventVars, pcRCtl, enr_read, r_captured, dbVars,
                   presVars, gazeVars, ledVars, limitVars, camera_on>>

RStart == RStartWith(EnrollNames)

\* line 269
RStopBegin ==
    /\ pcRCtl = "idle"
    /\ r_stopped' = TRUE
    /\ pcRCtl' = "join"
    /\ UNCHANGED <<wakeVars, eventVars, r_thread, pcEnr, counter, enr_name,
                   enr_enc, enr_read, accepted, cancelled, appended,
                   r_captured, r_events, dbVars, presVars, gazeVars, ledVars,
                   limitVars, exc, camera_on>>

\* lines 270-271: join() returns once the thread _thread names has ended
RStopJoin ==
    /\ pcRCtl = "join"
    /\ r_thread # 0 => ~Alive(pcEnr[r_thread])
    /\ pcRCtl' = "idle"
    /\ UNCHANGED <<wakeVars, eventVars, r_stopped, r_thread, pcEnr, counter,
                   enr_name, enr_enc, enr_read, accepted, cancelled, appended,
                   r_captured, r_events, dbVars, presVars, gazeVars, ledVars,
                   limitVars, exc, camera_on>>

\* lines 230-232
EnrCameraStart(t) ==
    /\ pcEnr[t] = "camera_start"
    /\ camera_on' = TRUE
    /\ counter' = [counter EXCEPT ![t] = 0]
    /\ pcEnr' = [pcEnr EXCEPT ![t] = "loop"]
    /\ UNCHANGED <<wakeVars, eventVars, r_stopped, r_thread, pcRCtl, enr_name,
                   enr_enc, enr_read, accepted, cancelled, appended,
                   r_captured, r_events, dbVars, presVars, gazeVars, ledVars,
                   limitVars, exc>>

\* variant: the loop bound is off by one
EnrLoop_offByOne(t) ==
    /\ pcEnr[t] = "loop"
    /\ pcEnr' = [pcEnr EXCEPT ![t] =
                    IF counter[t] <= n_frames /\ ~r_stopped
                    THEN "capture" ELSE "camera_stop"]
    /\ cancelled' = [cancelled EXCEPT ![t] = counter[t] <= n_frames /\ r_stopped]
    /\ UNCHANGED <<wakeVars, eventVars, r_stopped, r_thread, pcRCtl, counter,
                   enr_name, enr_enc, enr_read, accepted, appended,
                   r_captured, r_events, dbVars, presVars, gazeVars, ledVars,
                   limitVars, exc, camera_on>>

\* line 233: while counter < n_frames and not self.stopped.is_set()
EnrLoop(t) ==
    /\ pcEnr[t] = "loop"
    /\ pcEnr' = [pcEnr EXCEPT ![t] =
                    IF counter[t] < n_frames /\ ~r_stopped
                    THEN "capture" ELSE "camera_stop"]
    /\ cancelled' = [cancelled EXCEPT ![t] = counter[t] < n_frames /\ r_stopped]
    /\ UNCHANGED <<wakeVars, eventVars, r_stopped, r_thread, pcRCtl, counter,
                   enr_name, enr_enc, enr_read, accepted, appended,
                   r_captured, r_events, dbVars, presVars, gazeVars, ledVars,
                   limitVars, exc, camera_on>>

\* lines 236-259: capture, detection, check_looking filter, encodings[0]
EnrCapture(t) ==
    /\ pcEnr[t] = "capture"
    /\ r_captured < enr_limit
    /\ r_captured' = r_captured + 1
    /\ \E looking \in BOOLEAN, e \in EnrollEncs :
          IF looking
          THEN /\ enr_enc' = [enr_enc EXCEPT ![t] = e]
               /\ accepted' = [accepted EXCEPT ![t] = @ + 1]
               /\ pcEnr' = [pcEnr EXCEPT ![t] = "append_names"]
          ELSE /\ pcEnr' = [pcEnr EXCEPT ![t] = "loop"]
               /\ UNCHANGED <<enr_enc, accepted>>
    /\ UNCHANGED <<wakeVars, eventVars, r_stopped, r_thread, pcRCtl, counter,
                   enr_name, enr_read, cancelled, appended, r_events, dbVars,
                   presVars, gazeVars, ledVars, limitVars, exc, camera_on>>

\* lines 236-259 raising (camera, detector or embedding failure)
EnrCaptureRaises(t) ==
    /\ pcEnr[t] = "capture"
    /\ r_captured < enr_limit
    /\ r_captured' = r_captured + 1
    /\ pcEnr' = [pcEnr EXCEPT ![t] = "raised"]
    /\ exc' = [exc EXCEPT !.enr[t] = "Exception"]
    /\ UNCHANGED <<wakeVars, eventVars, r_stopped, r_thread, pcRCtl, counter,
                   enr_name, enr_enc, enr_read, accepted, cancelled, appended,
                   r_events, dbVars, presVars, gazeVars, ledVars, limitVars,
                   camera_on>>

\* line 25: read_csv reads the file. A missing file raises
\* FileNotFoundError, which the except clause (pd.errors.EmptyDataError
\* only) does not catch. Nothing keeps the caller from loading while an
\* enrollment runs.
FaceDB_load_read ==
    /\ pcLoad # "read"
    /\ IF ~db_file.exists
       THEN /\ pcLoad' = "raised"
            /\ exc' = [exc EXCEPT !.load = "FileNotFoundError"]
            /\ load_rows' = << >>
       ELSE /\ pcLoad' = "read"
            /\ exc' = [exc EXCEPT !.load = ""]
            /\ load_rows' = db_file.rows
    /\ UNCHANGED <<wakeVars, eventVars, enrVars, db_names, db_encodings,
                   db_file, db_loaded, appendLog, presVars, gazeVars, ledVars,
                   limitVars, camera_on>>

\* lines 26-31: FaceDB.encodings names a new dict, made of the rows read
FaceDB_load_assign ==
    /\ pcLoad = "read"
    /\ pcLoad' = "done"
    /\ db_loaded' = TRUE
    /\ db_names' = [i \in 1..Len(load_rows) |-> ParseName(load_rows[i][1])]
    /\ db_encodings' = [i \in 1..Len(load_rows) |-> ParseNum(load_rows[i][2])]
    /\ UNCHANGED <<wakeVars, eventVars, enrVars, db_file, load_rows,
                   appendLog, presVars, gazeVars, ledVars, limitVars, exc,
                   camera_on>>

\* lines 21-31
FaceDB_load == FaceDB_load_read \/ FaceDB_load_assign

\* line 35: FaceDB.encodings['names'].append(name); FaceDB.encodings is None
\* until a load has succeeded
FaceDB_append_names(t) ==
    /\ pcEnr[t] = "append_names"
    /\ IF db_loaded
       THEN /\ db_names' = Append(db_names, enr_name[t])
            /\ appendLog' = Append(appendLog, <<enr_name[t], enr_enc[t]>>)
            /\ appended' = [appended EXCEPT ![t] = @ + 1]
            /\ pcEnr' = [pcEnr EXCEPT ![t] = "append_encodings"]
            /\ exc' = exc
       ELSE /\ pcEnr' = [pcEnr EXCEPT ![t] = "raised"]
            /\ exc' = [exc EXCEPT !.enr[t] = "TypeError"]
            /\ UNCHANGED <<db_names, appendLog, appended>>
    /\ UNCHANGED <<wakeVars, eventVars, r_stopped, r_thread, pcRCtl, counter,
                   enr_name, enr_enc, enr_read, accepted, cancelled,
                   r_captured, r_events, db_encodings, db_file, db_loaded,
                   pcLoad, load_rows, presVars, gazeVars, ledVars, limitVars,
                   camera_on>>

\* line 36, right-hand side: np.append makes a new array of the rows that
\* FaceDB.encodings['encodings'] holds now and the new row
FaceDB_append_encodings(t) ==
    /\ pcEnr[t] = "append_encodings"
    /\ enr_read' = [enr_read EXCEPT ![t] = Append(db_encodings, enr_enc[t])]
    /\ pcEnr' = [pcEnr EXCEPT ![t] = "append_assign"]
    /\ UNCHANGED <<wakeVars, eventVars, r_stopped, r_thread, pcRCtl, counter,
                   enr_name, enr_enc, accepted, cancelled, appended,
                   r_captured, r_events, dbVars, presVars, gazeVars, ledVars,
                   limitVars, exc, camera_on>>

\* line 36, the assignment: FaceDB.encodings['encodings'] names the new array
FaceDB_append_assign(t) ==
    /\ pcEnr[t] = "append_assign"
    /\ db_encodings' = enr_read[t]
    /\ enr_read' = [enr_read EXCEPT ![t] = << >>]
    /\ pcEnr' = [pcEnr EXCEPT ![t] = "write"]
    /\ UNCHANGED <<wakeVars, eventVars, r_stopped, r_thread, pcRCtl, counter,
                   enr_name, enr_enc, accepted, cancelled, appended,
                   r_captured, r_events, db_names, db_file, db_loaded, pcLoad,
                   load_rows, appendLog, presVars, gazeVars, ledVars,
                   limitVars, exc, camera_on>>

\* lines 38-40: the row appended to the file
FaceDB_append_write(t) ==
    /\ pcEnr[t] = "write"
    /\ db_file' = [exists |-> TRUE,
                    rows |-> Append(db_file.rows, Row(enr_name[t], enr_enc[t]))]
    /\ pcEnr' = [pcEnr EXCEPT ![t] = "count"]
    /\ UNCHANGED <<wakeVars, eventVars, r_stopped, r_thread, pcRCtl, counter,
                   enr_name, enr_enc, enr_read, accepted, cancelled, appended,
                   r_captured, r_events, db_names, db_encodings, db_loaded,
                   pcLoad, load_rows, appendLog, presVars, gazeVars, ledVars,
                   limitVars, exc, camera_on>>

\* lines 38-40 raising (the file cannot be opened or written)
FaceDB_append_write_raises(t) ==
    /\ pcEnr[t] = "write"
    /\ pcEnr' = [pcEnr EXCEPT ![t] = "raised"]
    /\ exc' = [exc EXCEPT !.enr[t] = "OSError"]
    /\ UNCHANGED <<wakeVars, eventVars, r_stopped, r_thread, pcRCtl, counter,
                   enr_name, enr_enc, enr_read, accepted, cancelled, appended,
                   r_captured, r_events, dbVars, presVars, gazeVars, ledVars,
                   limitVars, camera_on>>

\* lines 261-263
EnrCount(t) ==
    /\ pcEnr[t] = "count"
    /\ counter' = [counter EXCEPT ![t] = @ + 1]
    /\ r_events' = Append(r_events, Recording(t, counter[t] + 1))
    /\ pcEnr' = [pcEnr EXCEPT ![t] = "loop"]
    /\ UNCHANGED <<wakeVars, eventVars, r_stopped, r_thread, pcRCtl, enr_name,
                   enr_enc, enr_read, accepted, cancelled, appended,
                   r_captured, dbVars, presVars, gazeVars, ledVars, limitVars,
                   exc, camera_on>>

\* line 265
EnrCameraStop(t) ==
    /\ pcEnr[t] = "camera_stop"
    /\ camera_on' = FALSE
    /\ pcEnr' = [pcEnr EXCEPT ![t] = "done"]
    /\ UNCHANGED <<wakeVars, eventVars, r_stopped, r_thread, pcRCtl, counter,
                   enr_name, enr_enc, enr_read, accepted, cancelled, appended,
                   r_captured, r_events, dbVars, presVars, gazeVars, ledVars,
                   limitVars, exc>>

\* lines 34-40: FaceDB.append, as called at line 260
FaceDB_append(t) ==
    \/ FaceDB_append_names(t)
    \/ FaceDB_append_encodings(t)
    \/ FaceDB_append_assign(t)
    \/ FaceDB_append_write(t)
    \/ FaceDB_append_write_raises(t)

\* the loop of _run while it is not cancelled
EnrollLoop(t) ==
    \/ EnrCameraStart(t)
    \/ EnrLoop(t)
    \/ EnrCapture(t)
    \/ EnrCaptureRaises(t)
    \/ FaceDB_append(t)
    \/ EnrCount(t)

Enroll(t) == EnrollLoop(t) \/ EnrCameraStop(t)

----------------------------------------------------------------------------
(* PresenceDetector: start, stop and the loop _run, on the same camera. *)

\* a slot whose PresenceDetector thread has ended
PresSlot == FreeSlot([t \in Threads |-> ~Alive(pcPres[t])], thread_limit.pres)

\* lines 308-312
PresenceDetector_start ==
    /\ pcPCtl = "idle"
    /\ PresSlot # 0
    /\ LET t == PresSlot
       IN  /\ p_thread' = t
           /\ pcPres' = [pcPres EXCEPT ![t] = "camera_start"]
           /\ p_detections' = [p_detections EXCEPT ![t] = FALSE]
           /\ exc' = [exc EXCEPT !.pres[t] = ""]
    /\ p_stopped' = FALSE
    /\ UNCHANGED <<wakeVars, eventVars, enrVars, dbVars, pcPCtl, p_event,
                   p_captured, gazeVars, ledVars, limitVars, camera_on>>

\* line 315
PresCameraStart(t) ==
    /\ pcPres[t] = "camera_start"
    /\ camera_on' = TRUE
    /\ pcPres' = [pcPres EXCEPT ![t] = "loop"]
    /\ UNCHANGED <<wakeVars, eventVars, enrVars, dbVars, p_stopped, p_thread,
                   pcPCtl, p_detections, p_event, p_captured, gazeVars,
                   ledVars, limitVars, exc>>

\* line 316: while not self.stopped.is_set(); the loop does not stop the
\* camera when it ends
PresLoop(t) ==
    /\ pcPres[t] = "loop"
    /\ pcPres' = [pcPres EXCEPT ![t] = IF p_stopped THEN "done" ELSE "capture"]
    /\ UNCHANGED <<wakeVars, eventVars, enrVars, dbVars, p_stopped, p_thread,
                   pcPCtl, p_detections, p_event, p_captured, gazeVars,
                   ledVars, limitVars, exc, camera_on>>

\* lines 317-320: get_color_frame and detector.detect
PresCapture(t) ==
    /\ pcPres[t] = "capture"
    /\ p_captured < p_limit
    /\ p_captured' = p_captured + 1
    /\ \E detections \in BOOLEAN :
          p_detections' = [p_detections EXCEPT ![t] = detections]
    /\ pcPres' = [pcPres EXCEPT ![t] = "emit"]
    /\ UNCHANGED <<wakeVars, eventVars, enrVars, dbVars, p_stopped, p_thread,
                   pcPCtl, p_event, gazeVars, ledVars, limitVars, exc,
                   camera_on>>

\* lines 317-320 raising (camera or detection model failure)
PresCaptureRaises(t) ==
    /\ pcPres[t] = "capture"
    /\ p_captured < p_limit
    /\ p_captured' = p_captured + 1
    /\ pcPres' = [pcPres EXCEPT ![t] = "raised"]
    /\ \E call \in {"get_color_frame", "detect"} :
          exc' = [exc EXCEPT !.pres[t] = call]
    /\ UNCHANGED <<wakeVars, eventVars, enrVars, dbVars, p_stopped, p_thread,
                   pcPCtl, p_detections, p_event, gazeVars, ledVars,
                   limitVars, camera_on>>

\* lines 322-325: the callback of the branch taken
PresEmit(t) ==
    /\ pcPres[t] = "emit"
    /\ p_event' = IF p_detections[t] THEN "person_detected" ELSE "empty_room"
    /\ pcPres' = [pcPres EXCEPT ![t] = "loop"]
    /\ UNCHANGED <<wakeVars, eventVars, enrVars, dbVars, p_stopped, p_thread,
                   pcPCtl, p_detections, p_captured, gazeVars, ledVars,
                   limitVars, exc, camera_on>>

PresenceDetector_run(t) ==
    \/ PresCameraStart(t)
    \/ PresLoop(t)
    \/ PresCapture(t)
    \/ PresCaptureRaises(t)
    \/ PresEmit(t)

\* line 329
PresStopBegin ==
    /\ pcPCtl = "idle"
    /\ p_stopped' = TRUE
    /\ pcPCtl' = "join"
    /\ UNCHANGED <<wakeVars, eventVars, enrVars, dbVars, p_thread, pcPres,
                   p_detections, p_event, p_captured, gazeVars, ledVars,
                   limitVars, exc, camera_on>>

\* lines 330-331: join() returns once the thread _thread names has ended
PresStopJoin ==
    /\ pcPCtl = "join"
    /\ p_thread # 0 => ~Alive(pcPres[p_thread])
    /\ pcPCtl' = "camera_stop"
    /\ UNCHANGED <<wakeVars, eventVars, enrVars, dbVars, p_stopped, p_thread,
                   pcPres, p_detections, p_event, p_captured, gazeVars,
                   ledVars, limitVars, exc, camera_on>>

\* line 333
PresStopCamera ==
    /\ pcPCtl = "camera_stop"
    /\ camera_on' = FALSE
    /\ pcPCtl' = "idle"
    /\ UNCHANGED <<wakeVars, eventVars, enrVars, dbVars, p_stopped, p_thread,
                   pcPres, p_detections, p_event, p_captured, gazeVars,
                   ledVars, limitVars, exc>>

PresenceDetector_stop == PresStopBegin \/ PresStopJoin \/ PresStopCamera

----------------------------------------------------------------------------
(* services/eva_led.py: the LedState objects, the values they hand to      *)
(* led.set, and the EvaLed object with its animation threads.  The         *)
(* argument of led.set is a colour name, a dict of channel levels, or a    *)
(* list with one such value per LED; each form is written as a list of     *)
(* pixels, a pixel being a name or the (channel, level) items of a dict.   *)

Px(name, levels) == [name |-> name, levels |-> levels]
Named(c) == [form |-> "str", px |-> <<Px(c, << >>)>>]
Dict(levels) == [form |-> "dict", px |-> <<Px("", levels)>>]
List(pxs) == [form |-> "list", px |-> pxs]
NoColor == [form |-> "None", px |-> << >>]       \* get_next_color() is None

\* [x] * n
Repeat(x, n) == [i \in 1..n |-> x]

\* int(255 / led.length)
interval == MaxBright \div LedLength

\* Joy.bright / Breath.bright: the ramp followed by its reverse
bright ==
    [k \in 1..(2 * LedLength) |->
        IF k <= LedLength THEN MaxBright - (k - 1) * interval
                          ELSE MaxBright - (2 * LedLength - k) * interval]

\* Loop.bright: the ramp of one channel, twice
LoopBright(ch) ==
    [k \in 1..(2 * LedLength) |->
        Px("", <<<<ch, MaxBright - ((k - 1) % LedLength) * interval>>>>)]

\* lines 119-121 of Rainbow.get_next_color: the r, g, b that
\* round(max(0, (sin(0.375 * counter + phase) * 155 + 100) / 10)) gives for
\* counter = 0.0, 1.01, 2.02, ...: entry k + 1 is for the counter that has
\* grown k times
RainbowLevels ==
    <<<<0, 23, 10>>, <<0, 20, 16>>, <<0, 14, 21>>, <<0, 9, 24>>,
      <<2, 3, 25>>, <<7, 0, 25>>, <<13, 0, 22>>, <<18, 0, 17>>,
      <<22, 0, 12>>, <<25, 0, 6>>, <<25, 4, 1>>, <<24, 10, 0>>>>

\* line 125: {'r':r, 'g':g, 'b':b}
RainbowPx(r, g, b) == Px("", <<<<"r", r>>, <<"g", g>>, <<"b", b>>>>)

\* a LedState object: its class, its constructor arguments and its fields;
\* id tells the objects apart (0 until the object is given to EvaLed.set).
\* index is Joy.index, Loop.index, Breath.index, and for a Rainbow the number
\* of times counter has grown; array is Close.array, Rainbow.everloop, and
\* for a Progress the list it keeps in initial_led_state
LedObject(cls, color, percentage, array) ==
    [id |-> 0, cls |-> cls, color |-> color, percentage |-> percentage,
     index |-> 0, array |-> array]

Joy == LedObject("Joy", "", 0, << >>)
Loop(rgbw_color) == LedObject("Loop", rgbw_color, 0, << >>)
LedProgress(color, percentage) ==
    LedObject("Progress", color, percentage,
              Repeat(Px(color, << >>), (percentage * LedLength) \div 100))
Breath(rgbw_color) == LedObject("Breath", rgbw_color, 0, << >>)
StaticColor(color) == LedObject("StaticColor", color, 0, << >>)
Close(color) ==
    LedObject("Close", color, 0, Repeat(Px(color, << >>), LedLength))
\* Rainbow.__init__ does not call LedState.__init__
Rainbow == LedObject("Rainbow", "", 0, Repeat(Px("black", << >>), LedLength))

\* the class sets the attribute initial_led_state
HasInitialLedState(o) == o.cls # "Rainbow"

\* the attribute initial_led_state; for Close it is the list self.array
\* itself, read when led.set is called
initial_led_state(o) ==
    CASE o.cls = "StaticColor" -> Named(o.color)
      [] o.cls = "Progress" -> List(o.array)
      [] o.cls = "Close" -> List(o.array)
      [] OTHER -> Named("black")

\* the __eq__ methods: same class, and the fields each class compares
LedEq(a, b) ==
    /\ a.cls = b.cls
    /\ a.cls \in {"Loop", "Breath", "StaticColor", "Close"} => a.color = b.color
    /\ a.cls = "Progress" => a.color = b.color /\ a.percentage = b.percentage

\* self.array after self.array.pop()
Pop(array) == SubSeq(array, 1, Len(array) - 1)

\* the object after the body of Loop.get_next_color (line 45) or of
\* Close.get_next_color (lines 99-100) has run on it
Advanced(o) ==
    CASE o.cls = "Loop" -> [o EXCEPT !.index = (o.index + 1) % LedLength]
      [] o.cls = "Close" ->
            IF o.array # << >> THEN [o EXCEPT !.array = Pop(o.array)] ELSE o
      [] OTHER -> o

\* the value the body of get_next_color computes from the object as it is;
\* Rainbow returns the list everloop it has filled
get_next_color(o) ==
    CASE o.cls = "Joy" ->
            Dict(<<<<"r", bright[o.index + 1]>>, <<"g", bright[o.index + 1]>>>>)
      [] o.cls = "Breath" -> Dict(<<<<o.color, bright[o.index + 1]>>>>)
      [] o.cls = "Loop" ->
            List(SubSeq(LoopBright(o.color), o.index + 1, o.index + LedLength))
      [] o.cls = "Close" ->
            IF o.array # << >> THEN List(Pop(o.array)) ELSE Named("black")
      [] o.cls = "Rainbow" -> List(o.array)
      [] OTHER -> NoColor

\* get_next_color returns a list the object keeps and changes in place
\* (Close.array, Rainbow.everloop), not a new value
ReturnsOwnList(o) ==
    \/ o.cls = "Rainbow"
    \/ o.cls = "Close" /\ o.array # << >>

\* the class overrides get_next_color with a body that reads and writes
\* fields of the object
HasBody(o) == o.cls \in {"Joy", "Loop", "Breath", "Close", "Rainbow"}

\* the objects the callers of EvaLed.set construct
LedInputs ==
    {StaticColor("black"), StaticColor("blue"), Breath("b"), Joy, Loop("g"),
     Close("red"), LedProgress("green", 50), Rainbow}

\* the threads that call EvaLed.set
Callers == {"dialog", "camera"}

NoNext == [val |-> NoColor, src |-> 0, own |-> FALSE]

\* the locals of a thread that is not inside get_next_color: self, next,
\* the sum self.index + 1 of lines 27 and 75, and i, r, g, b of Rainbow
NoCall ==
    [self |-> StaticColor("black"), next |-> NoColor, sum |-> 0,
     i |-> 0, r |-> 0, g |-> 0, b |-> 0]

\* the threads inside get_next_color of the object o
Inside(o) ==
    {t \in Threads :
        /\ pcRun[t] \in {"body", "next", "index", "r", "g", "b", "store"}
        /\ gnc[t].self.id = o.id}

\* line 138: a caller constructs a LedState and calls set with it
SetCall(c) ==
    /\ pcSet[c] = "idle"
    /\ led_objs < set_limit
    /\ \E o \in LedInputs :
          set_arg' = [set_arg EXCEPT ![c] = [o EXCEPT !.id = led_objs + 1]]
    /\ led_objs' = led_objs + 1
    /\ pcSet' = [pcSet EXCEPT ![c] = "call"]
    /\ exc' = [exc EXCEPT !.set[c] = ""]
    /\ UNCHANGED <<wakeVars, eventVars, enrVars, dbVars, presVars, gazeVars,
                   led_state, leds, led_lock, led_stopped, led_thread, pcRun,
                   next_color, gnc, pcLedCtl, limitVars, camera_on>>

\* line 139: with self.lock, entered once the lock is free
SetAcquire(c) ==
    /\ pcSet[c] = "call"
    /\ led_lock = ""
    /\ led_lock' = c
    /\ pcSet' = [pcSet EXCEPT ![c] = "locked"]
    /\ UNCHANGED <<wakeVars, eventVars, enrVars, dbVars, presVars, gazeVars,
                   led_state, leds, led_stopped, led_thread, pcRun,
                   next_color, gnc, set_arg, pcLedCtl, led_objs, limitVars,
                   exc, camera_on>>

\* lines 140-141: an object equal to the state leaves it, the lock is
\* released and set returns; any other object becomes the state
SetAssign(c) ==
    /\ pcSet[c] = "locked"
    /\ IF LedEq(led_state, set_arg[c])
       THEN /\ led_lock' = ""
            /\ pcSet' = [pcSet EXCEPT ![c] = "idle"]
            /\ UNCHANGED led_state
       ELSE /\ led_state' = set_arg[c]
            /\ pcSet' = [pcSet EXCEPT ![c] = "assigned"]
            /\ UNCHANGED led_lock
    /\ UNCHANGED <<wakeVars, eventVars, enrVars, dbVars, presVars, gazeVars,
                   leds, led_stopped, led_thread, pcRun, next_color, gnc,
                   set_arg, pcLedCtl, led_objs, limitVars, exc, camera_on>>

\* line 142 and the end of the with block: the LEDs get the initial value
\* of the state, the lock is released and set returns; a state without the
\* attribute initial_led_state raises AttributeError, which leaves the with
\* block and set
SetLeds(c) ==
    /\ pcSet[c] = "assigned"
    /\ IF HasInitialLedState(led_state)
       THEN /\ leds' = initial_led_state(led_state)
            /\ exc' = exc
       ELSE /\ leds' = leds
            /\ exc' = [exc EXCEPT !.set[c] = "AttributeError"]
    /\ led_lock' = ""
    /\ pcSet' = [pcSet EXCEPT ![c] = "idle"]
    /\ UNCHANGED <<wakeVars, eventVars, enrVars, dbVars, presVars, gazeVars,
                   led_state, led_stopped, led_thread, pcRun, next_color, gnc,
                   set_arg, pcLedCtl, led_objs, limitVars, camera_on>>

EvaLed_set == \E c \in Callers :
    SetCall(c) \/ SetAcquire(c) \/ SetAssign(c) \/ SetLeds(c)

\* line 145
RunLoop(t) ==
    /\ pcRun[t] = "loop"
    /\ pcRun' = [pcRun EXCEPT ![t] = IF led_stopped THEN "done" ELSE "get"]
    /\ UNCHANGED <<wakeVars, eventVars, enrVars, dbVars, presVars, gazeVars,
                   led_state, leds, led_lock, led_stopped, led_thread,
                   next_color, gnc, pcSet, set_arg, pcLedCtl, led_objs,
                   limitVars, exc, camera_on>>

\* line 146: the thread reads self.state and calls get_next_color of that
\* object, which stays the self of the call whatever set() does to the state
\* meanwhile; other threads may be inside a call on the same object.  The
\* get_next_color of LedState, which StaticColor and Progress keep, returns
\* None.  No more than MaxRainbow calls are made on one Rainbow object.
RunGet(t) ==
    /\ pcRun[t] = "get"
    /\ led_state.cls = "Rainbow"
          => led_state.index + LedLength * Cardinality(Inside(led_state))
               < MaxRainbow * LedLength
    /\ IF HasBody(led_state)
       THEN /\ gnc' = [gnc EXCEPT ![t] = [NoCall EXCEPT !.self = led_state]]
            /\ pcRun' = [pcRun EXCEPT ![t] =
                            CASE led_state.cls \in {"Joy", "Breath"} -> "next"
                              [] led_state.cls = "Rainbow" -> "r"
                              [] OTHER -> "body"]
            /\ UNCHANGED next_color
       ELSE /\ next_color' =
                  [next_color EXCEPT ![t] =
                      [val |-> get_next_color(led_state),
                       src |-> led_state.id, own |-> FALSE]]
            /\ pcRun' = [pcRun EXCEPT ![t] = "got"]
            /\ UNCHANGED gnc
    /\ UNCHANGED <<wakeVars, eventVars, enrVars, dbVars, presVars, gazeVars,
                   led_state, leds, led_lock, led_stopped, led_thread, pcSet,
                   set_arg, pcLedCtl, led_objs, limitVars, exc, camera_on>>

\* what a call on the object o hands to _run at line 146 when it returns val
Handed(o, val) == [val |-> val, src |-> o.id, own |-> ReturnsOwnList(o)]

\* a write of thread t to its self makes the object o: every holder of the
\* object sees it, that is the state if it still is this object, the other
\* threads inside a call on it, and the threads that were handed its list.
\* Thread t goes on with the locals mine and the next_color handed.
Writes(t, o, mine, handed) ==
    /\ led_state' = IF led_state.id = o.id THEN o ELSE led_state
    /\ gnc' =
          [u \in Threads |->
              IF u = t THEN mine
              ELSE IF u \in Inside(o) THEN [gnc[u] EXCEPT !.self = o]
              ELSE gnc[u]]
    /\ next_color' =
          [u \in Threads |->
              IF u = t THEN handed
              ELSE IF next_color[u].own /\ next_color[u].src = o.id
                   THEN [next_color[u] EXCEPT !.val = List(o.array)]
                   ELSE next_color[u]]

\* lines 44-47 of Loop and lines 99-102 of Close: the body reads the object,
\* changes it and returns, no other thread running in between
RunBody(t) ==
    /\ pcRun[t] = "body"
    /\ Writes(t, Advanced(gnc[t].self), NoCall,
              Handed(gnc[t].self, get_next_color(gnc[t].self)))
    /\ pcRun' = [pcRun EXCEPT ![t] = "got"]
    /\ UNCHANGED <<wakeVars, eventVars, enrVars, dbVars, presVars, gazeVars,
                   leds, led_lock, led_stopped, led_thread, pcSet, set_arg,
                   pcLedCtl, led_objs, limitVars, exc, camera_on>>

\* lines 26-27 of Joy and 74-75 of Breath, up to the call of len: next is
\* made from bright[self.index], and self.index + 1 is computed
IndexRead(t) ==
    /\ pcRun[t] = "next"
    /\ gnc' = [gnc EXCEPT ![t].next = get_next_color(gnc[t].self),
                          ![t].sum = gnc[t].self.index + 1]
    /\ pcRun' = [pcRun EXCEPT ![t] = "index"]
    /\ UNCHANGED <<wakeVars, eventVars, enrVars, dbVars, presVars, gazeVars,
                   led_state, leds, led_lock, led_stopped, led_thread,
                   next_color, pcSet, set_arg, pcLedCtl, led_objs, limitVars,
                   exc, camera_on>>

\* lines 27-29 of Joy and 75-77 of Breath, after the call of len: the sum
\* modulo len(self.bright) becomes self.index, and next is returned
IndexStore(t) ==
    /\ pcRun[t] = "index"
    /\ Writes(t, [gnc[t].self EXCEPT !.index = gnc[t].sum % (2 * LedLength)],
              NoCall, Handed(gnc[t].self, gnc[t].next))
    /\ pcRun' = [pcRun EXCEPT ![t] = "got"]
    /\ UNCHANGED <<wakeVars, eventVars, enrVars, dbVars, presVars, gazeVars,
                   leds, led_lock, led_stopped, led_thread, pcSet, set_arg,
                   pcLedCtl, led_objs, limitVars, exc, camera_on>>

\* line 119, 120 or 121: r, g or b is computed from the counter of this
\* moment; the calls of sin, max and round on the line let other threads
\* run before the next line reads the counter again
RainbowChannel(t) ==
    \E ch \in 1..3 :
        LET local == <<"r", "g", "b">>
            after == <<"g", "b", "store">>
        IN  /\ pcRun[t] = local[ch]
            /\ gnc' = [gnc EXCEPT ![t][local[ch]] =
                                      RainbowLevels[gnc[t].self.index + 1][ch]]
            /\ pcRun' = [pcRun EXCEPT ![t] = after[ch]]
            /\ UNCHANGED <<wakeVars, eventVars, enrVars, dbVars, presVars,
                           gazeVars, led_state, leds, led_lock, led_stopped,
                           led_thread, next_color, pcSet, set_arg, pcLedCtl,
                           led_objs, limitVars, exc, camera_on>>

\* lines 123-125, then 118 or 127: counter += ledAdjust and the assignment
\* of {'r': r, 'g': g, 'b': b} to everloop[i] are made with no other thread
\* running in between; then the loop goes on with the next LED, or the call
\* returns self.everloop
RainbowStore(t) ==
    /\ pcRun[t] = "store"
    /\ LET o == [gnc[t].self EXCEPT
                    !.index = @ + 1,
                    !.array[gnc[t].i + 1] =
                        RainbowPx(gnc[t].r, gnc[t].g, gnc[t].b)]
       IN  IF gnc[t].i + 1 < Len(o.array)
           THEN /\ Writes(t, o, [NoCall EXCEPT !.self = o, !.i = gnc[t].i + 1],
                          next_color[t])
                /\ pcRun' = [pcRun EXCEPT ![t] = "r"]
           ELSE /\ Writes(t, o, NoCall, Handed(o, get_next_color(o)))
                /\ pcRun' = [pcRun EXCEPT ![t] = "got"]
    /\ UNCHANGED <<wakeVars, eventVars, enrVars, dbVars, presVars, gazeVars,
                   leds, led_lock, led_stopped, led_thread, pcSet, set_arg,
                   pcLedCtl, led_objs, limitVars, exc, camera_on>>

\* the bodies of the get_next_color overrides
LedState_get_next_color(t) ==
    \/ RunBody(t)
    \/ IndexRead(t)
    \/ IndexStore(t)
    \/ RainbowChannel(t)
    \/ RainbowStore(t)

\* lines 147-149: the colour, unless it is None, goes to the LEDs, without
\* the lock; then the thread sleeps
RunLeds(t) ==
    /\ pcRun[t] = "got"
    /\ leds' = IF next_color[t].val # NoColor THEN next_color[t].val ELSE leds
    /\ next_color' = [next_color EXCEPT ![t] = NoNext]
    /\ pcRun' = [pcRun EXCEPT ![t] = "loop"]
    /\ UNCHANGED <<wakeVars, eventVars, enrVars, dbVars, presVars, gazeVars,
                   led_state, led_lock, led_stopped, led_thread, gnc, pcSet,
                   set_arg, pcLedCtl, led_objs, limitVars, exc, camera_on>>

EvaLed_run(t) ==
    \/ RunLoop(t)
    \/ RunGet(t)
    \/ LedState_get_next_color(t)
    \/ RunLeds(t)

\* line 157
LedStopBegin ==
    /\ pcLedCtl = "idle"
    /\ led_stopped' = TRUE
    /\ pcLedCtl' = "join"
    /\ UNCHANGED <<wakeVars, eventVars, enrVars, dbVars, presVars, gazeVars,
                   led_state, leds, led_lock, led_thread, pcRun, next_color,
                   gnc, pcSet, set_arg, led_objs, limitVars, exc, camera_on>>

\* lines 158-159: the join returns once the thread self.thread names has
\* ended; then the LEDs go black
LedStopJoin ==
    /\ pcLedCtl = "join"
    /\ ~Alive(pcRun[led_thread])
    /\ leds' = Named("black")
    /\ pcLedCtl' = "idle"
    /\ UNCHANGED <<wakeVars, eventVars, enrVars, dbVars, presVars, gazeVars,
                   led_state, led_lock, led_stopped, led_thread, pcRun,
                   next_color, gnc, pcSet, set_arg, led_objs, limitVars, exc,
                   camera_on>>

EvaLed_stop == LedStopBegin \/ LedStopJoin

\* a slot whose animation thread has ended
LedSlot == FreeSlot([t \in Threads |-> ~Alive(pcRun[t])], thread_limit.led)

\* lines 151-154: no check that the EvaLed is stopped; self.thread names a
\* new thread and the flag is cleared
EvaLed_start ==
    /\ pcLedCtl = "idle"
    /\ LedSlot # 0
    /\ led_thread' = LedSlot
    /\ led_stopped' = FALSE
    /\ pcRun' = [pcRun EXCEPT ![LedSlot] = "loop"]
    /\ next_color' = [next_color EXCEPT ![LedSlot] = NoNext]
    /\ UNCHANGED <<wakeVars, eventVars, enrVars, dbVars, presVars, gazeVars,
                   led_state, leds, led_lock, gnc, pcSet, set_arg, pcLedCtl,
                   led_objs, limitVars, exc, camera_on>>

\* lines 131-136: EvaLed() shows black and starts its thread
InitEvaLed ==
    /\ led_state = StaticColor("black")
    /\ leds = Named("black")
    /\ led_lock = ""
    /\ led_stopped = FALSE
    /\ led_thread = 1
    /\ pcRun = [t \in Threads |-> IF t = 1 THEN "loop" ELSE "none"]
    /\ next_color = [t \in Threads |-> NoNext]
    /\ gnc = [t \in Threads |-> NoCall]
    /\ pcSet = [c \in Callers |-> "idle"]
    /\ set_arg = [c \in Callers |-> StaticColor("black")]
    /\ pcLedCtl = "idle"
    /\ led_objs = 0

\* no EvaLed is constructed
InitNoLed ==
    /\ led_state = StaticColor("black")
    /\ leds = Named("black")
    /\ led_lock = ""
    /\ led_stopped = FALSE
    /\ led_thread = 0
    /\ pcRun = [t \in Threads |-> "none"]
    /\ next_color = [t \in Threads |-> NoNext]
    /\ gnc = [t \in Threads |-> NoCall]
    /\ pcSet = [c \in Callers |-> "idle"]
    /\ set_arg = [c \in Callers |-> StaticColor("black")]
    /\ pcLedCtl = "none"
    /\ led_objs = 0

----------------------------------------------------------------------------
InitWakeface ==
    /\ stopped = FALSE
    /\ face_queue = 0
    /\ queues = << >>
    /\ w_thread = 0
    /\ pcDet = [t \in Threads |-> "none"]
    /\ pcRec = [t \in Threads |-> "none"]
    /\ pcCtl = "idle"
    /\ frame = [t \in Threads |-> NoFrame]
    /\ det_q = [t \in Threads |-> 0]
    /\ item = [t \in Threads |-> NoItem]
    /\ rec_q = [t \in Threads |-> 0]
    /\ face_history = [t \in Threads |-> EmptyHist]
    /\ hist_src = [t \in Threads |-> EmptyHist]
    /\ rec_k = [t \in Threads |-> 1]
    /\ rec_names = [t \in Threads |-> << >>]
    /\ matchedIdxs = [t \in Threads |-> {}]
    /\ det_event = NoDetEvent
    /\ rec_event = NoRecEvent
    /\ calls = 0
    /\ captured = 0
    /\ no_det = {}
    /\ listened = {}

\* no call of check_looking is followed
InitNoGaze ==
    /\ g_face = NoFace
    /\ g_incr = DefaultIncr
    /\ g_looking = FALSE
    /\ pcGaze = "none"

InitRecordFace ==
    /\ r_stopped = FALSE
    /\ r_thread = 0
    /\ pcEnr = [t \in Threads |-> "none"]
    /\ pcRCtl = "idle"
    /\ counter = [t \in Threads |-> 0]
    /\ enr_name = [t \in Threads |-> ""]
    /\ enr_enc = [t \in Threads |-> 0]
    /\ enr_read = [t \in Threads |-> << >>]
    /\ accepted = [t \in Threads |-> 0]
    /\ cancelled = [t \in Threads |-> FALSE]
    /\ appended = [t \in Threads |-> 0]
    /\ r_captured = 0
    /\ r_events = << >>

InitPresenceDetector ==
    /\ p_stopped = FALSE
    /\ p_thread = 0
    /\ pcPres = [t \in Threads |-> "none"]
    /\ pcPCtl = "idle"
    /\ p_detections = [t \in Threads |-> FALSE]
    /\ p_event = "none"
    /\ p_captured = 0

\* FaceDB.load of a file holding the rows of InitNames / InitEncodings
InitFaceDB ==
    /\ db_names = InitNames
    /\ db_encodings = InitEncodings
    /\ db_file = [exists |-> TRUE,
                   rows |-> [i \in 1..Len(InitNames) |->
                                Row(InitNames[i], InitEncodings[i])]]
    /\ db_loaded = TRUE
    /\ pcLoad = "done"
    /\ load_rows = << >>
    /\ appendLog = [i \in 1..Len(InitNames) |-> <<InitNames[i], InitEncodings[i]>>]

\* no thread has run: no exception, the camera is off
InitProcess ==
    /\ exc = [det |-> [t \in Threads |-> ""], rec |-> [t \in Threads |-> ""],
              enr |-> [t \in Threads |-> ""], pres |-> [t \in Threads |-> ""],
              set |-> [c \in Callers |-> ""], load |-> ""]
    /\ camera_on = FALSE

\* the slots of each feature
Slots(wake, enr, pres, led) ==
    [wake |-> wake, enr |-> enr, pres |-> pres, led |-> led]

\* the Wakeface feature: one pair of threads at a time over MaxFrames
\* frames, or the pairs of repeated start() calls over MaxFramesPairs frames
Init ==
    /\ InitWakeface
    /\ InitRecordFace
    /\ InitPresenceDetector
    /\ InitNoGaze
    /\ InitNoLed
    /\ InitFaceDB
    /\ InitProcess
    /\ \/ frame_limit = MaxFrames /\ thread_limit = Slots(1, 1, 1, 1)
       \/ /\ frame_limit = MaxFramesPairs
          /\ thread_limit = Slots(MaxThreads, 1, 1, 1)
    /\ enr_limit = MaxEnrollFrames
    /\ p_limit = MaxFramesCamera
    /\ set_limit = MaxSets

\* the enrollment feature: one thread at a time over MaxEnrollFrames frames,
\* or the threads of repeated start() calls over MaxEnrollFramesPairs frames
InitEnroll ==
    /\ InitWakeface
    /\ InitRecordFace
    /\ InitPresenceDetector
    /\ InitNoGaze
    /\ InitNoLed
    /\ InitFaceDB
    /\ InitProcess
    /\ frame_limit = MaxFrames
    /\ \/ enr_limit = MaxEnrollFrames /\ thread_limit = Slots(1, 1, 1, 1)
       \/ /\ enr_limit = MaxEnrollFramesPairs
          /\ thread_limit = Slots(1, MaxThreads, 1, 1)
    /\ p_limit = MaxFramesCamera
    /\ set_limit = MaxSets

\* both features started: one enrollment thread at a time, or the threads of
\* repeated RecordFace.start() calls beside fewer Wakeface frames
InitDB ==
    /\ InitWakeface
    /\ InitRecordFace
    /\ InitPresenceDetector
    /\ InitNoGaze
    /\ InitNoLed
    /\ InitFaceDB
    /\ InitProcess
    /\ enr_limit = MaxEnrollFramesDB
    /\ p_limit = MaxFramesCamera
    /\ set_limit = MaxSets
    /\ \/ frame_limit = MaxFramesDB /\ thread_limit = Slots(1, 1, 1, 1)
       \/ /\ frame_limit = MaxFramesDBPairs
          /\ thread_limit = Slots(1, MaxThreads, 1, 1)

\* the store before the first FaceDB.load, with a backing file that is
\* missing, empty, or holds the rows of InitNames / InitEncodings
InitStore ==
    /\ InitWakeface
    /\ InitRecordFace
    /\ InitPresenceDetector
    /\ InitNoGaze
    /\ InitNoLed
    /\ InitProcess
    /\ db_names = << >>
    /\ db_encodings = << >>
    /\ db_loaded = FALSE
    /\ pcLoad = "none"
    /\ load_rows = << >>
    /\ \E k \in {0, Len(InitNames)} :
          /\ appendLog = [i \in 1..k |-> <<InitNames[i], InitEncodings[i]>>]
          /\ \E exists \in BOOLEAN :
                /\ ~exists => k = 0
                /\ db_file = [exists |-> exists,
                               rows |-> [i \in 1..k |->
                                            Row(InitNames[i], InitEncodings[i])]]
    /\ frame_limit = MaxFrames
    /\ p_limit = MaxFramesCamera
    /\ set_limit = MaxSets
    /\ \/ enr_limit = MaxEnrollFramesStore /\ thread_limit = Slots(1, 1, 1, 1)
       \/ /\ enr_limit = MaxEnrollFramesStorePairs
          /\ thread_limit = Slots(1, MaxThreads, 1, 1)

\* the store as loaded from a file that holds the rows of one of StoreInputs
InitRec ==
    /\ InitWakeface
    /\ InitRecordFace
    /\ InitPresenceDetector
    /\ InitNoGaze
    /\ InitNoLed
    /\ InitProcess
    /\ \E st \in StoreInputs :
          /\ db_names = [i \in 1..Len(st) |-> st[i][1]]
          /\ db_encodings = [i \in 1..Len(st) |-> st[i][2]]
          /\ db_file = [exists |-> TRUE,
                         rows |-> [i \in 1..Len(st) |-> Row(st[i][1], st[i][2])]]
          /\ appendLog = st
    /\ db_loaded = TRUE
    /\ pcLoad = "done"
    /\ load_rows = << >>
    /\ frame_limit = MaxFramesRec
    /\ enr_limit = MaxEnrollFrames
    /\ p_limit = MaxFramesCamera
    /\ set_limit = MaxSets
    /\ thread_limit = Slots(1, 1, 1, 1)

\* a call of check_looking on each face and tolerance of the inputs
InitGaze ==
    /\ InitWakeface
    /\ InitRecordFace
    /\ InitPresenceDetector
    /\ InitFaceDB
    /\ InitNoLed
    /\ InitProcess
    /\ frame_limit = MaxFrames
    /\ enr_limit = MaxEnrollFrames
    /\ p_limit = MaxFramesCamera
    /\ set_limit = MaxSets
    /\ thread_limit = Slots(1, 1, 1, 1)
    /\ g_face \in LandmarkInputs
    /\ g_incr \in IncrInputs
    /\ g_looking = FALSE
    /\ pcGaze = "call"

\* the Wakeface feature and the PresenceDetector on the one camera: one
\* thread of each at a time, or the threads of repeated
\* PresenceDetector.start() calls beside a Wakeface that gets no frame before
\* its stop()
InitCamera ==
    /\ InitWakeface
    /\ InitRecordFace
    /\ InitPresenceDetector
    /\ InitNoGaze
    /\ InitNoLed
    /\ InitFaceDB
    /\ InitProcess
    /\ enr_limit = MaxEnrollFrames
    /\ p_limit = MaxFramesCamera
    /\ set_limit = MaxSets
    /\ \/ frame_limit = MaxFramesCamera /\ thread_limit = Slots(1, 1, 1, 1)
       \/ /\ frame_limit = MaxFramesPairs
          /\ thread_limit = Slots(1, 1, MaxThreads, 1)

Next ==
    \/ WStart
    \/ WStopBegin
    \/ WakefaceStop
    \/ \E t \in Threads : Detector(t) \/ Recognizer(t)

NextEnroll ==
    RStart \/ RStopBegin \/ RStopJoin \/ \E t \in Threads : Enroll(t)

\* the Wakeface feature alone
Spec == Init /\ [][Next]_vars

\* the Wakeface feature with the scheduler running every thread that can run
FairSpec ==
    /\ Init /\ [][Next]_vars
    /\ \A t \in Threads : WF_vars(Detector(t)) /\ WF_vars(Recognizer(t))
    /\ WF_vars(WakefaceStop)

\* the enrollment feature alone
SpecEnroll == InitEnroll /\ [][NextEnroll]_vars

\* both features started, by independent callers, and not stopped; start()
\* is called with a name of EnrollNames, and with another name of PairNames
\* beside a loop that still runs
NextDB ==
    \/ WStart
    \/ RStartWith(IF EnrSlot <= 1 THEN EnrollNames
                                  ELSE PairNames \ EnrollNames)
    \/ \E t \in Threads : Detector(t) \/ Recognizer(t) \/ EnrollLoop(t)

SpecDB == InitDB /\ [][NextDB]_vars

\* the Wakeface feature, started and not stopped, over each store
NextRec == WStart \/ \E t \in Threads : Detector(t) \/ Recognizer(t)

SpecRec == InitRec /\ [][NextRec]_vars

\* check_looking and the filter that calls it
NextGaze == GazeCall \/ GazeFilter

SpecGaze == InitGaze /\ [][NextGaze]_vars

\* the store and the enrollment feature: loads, appends and reloads
NextStore ==
    \/ FaceDB_load
    \/ RStartWith(StoreNames)
    \/ RStopBegin
    \/ RStopJoin
    \/ \E t \in Threads : Enroll(t)

SpecStore == InitStore /\ [][NextStore]_vars

\* the two features that hold the camera without an enrollment
NextCamera ==
    \/ WStart
    \/ WStopBegin
    \/ WakefaceStop
    \/ PresenceDetector_start
    \/ PresenceDetector_stop
    \/ \E t \in Threads :
          Detector(t) \/ Recognizer(t) \/ PresenceDetector_run(t)

SpecCamera == InitCamera /\ [][NextCamera]_vars

\* an EvaLed, the callers of its set, and its animation threads: one
\* animation thread at a time and MaxSets calls of set, or the threads of
\* repeated start() calls and MaxSetsPairs calls of set
InitLed ==
    /\ InitWakeface
    /\ InitRecordFace
    /\ InitPresenceDetector
    /\ InitNoGaze
    /\ InitFaceDB
    /\ InitEvaLed
    /\ InitProcess
    /\ frame_limit = MaxFrames
    /\ enr_limit = MaxEnrollFrames
    /\ p_limit = MaxFramesCamera
    /\ \/ set_limit = MaxSets /\ thread_limit = Slots(1, 1, 1, 1)
       \/ /\ set_limit = MaxSetsPairs
          /\ thread_limit = Slots(1, 1, 1, MaxThreads)

NextLed ==
    \/ EvaLed_set
    \/ EvaLed_stop
    \/ EvaLed_start
    \/ \E t \in Threads : EvaLed_run(t)

SpecLed == InitLed /\ [][NextLed]_vars

----------------------------------------------------------------------------
(* Properties of the Wakeface feature. *)

RealNames(h) == {n \in DOMAIN h : ~Falsy(n)}

\* a step in which a recognizer decides what to do with an item that
\* carries boxes
DecidesOnFaces(t) ==
    pcRec[t] = "process" /\ item[t].bboxes # << >> /\ pcRec'[t] # pcRec[t]

\* a step in which a recognizer handles the item (None, [])
ConsumesNoFace(t) ==
    pcRec[t] = "process" /\ item[t].bboxes = << >> /\ pcRec'[t] # pcRec[t]

\* a step in which a recognizer updates the history and calls the callback
Updates(t) == pcRec[t] = "update" /\ pcRec'[t] # pcRec[t]

\* a recognizer has just dropped an item that carries boxes without counting it
SkippedFaces(t) ==
    /\ pcRec[t] = "loop"
    /\ item[t].bboxes # << >>
    /\ \A n \in DOMAIN hist_src[t] : item[t].frame \notin hist_src[t][n]

\* C1: the mailbox holds at most one item in every reachable state, so that
\* only the most recently published item can be consumed.
C1_MailboxHoldsAtMostOne == \A q \in 1..Len(queues) : Len(queues[q]) <= 1

\* C2 as stated: while the history holds only "alice" with a count below 3, a
\* consumed frame with faces is recognized again (counts 1, 2, 3); it is
\* skipped only once the count has reached 3.
C2_AliceCountsToThree ==
    [][\A t \in Threads :
         (DecidesOnFaces(t) /\ DOMAIN face_history[t] = {"alice"})
           => ((pcRec'[t] # "loop")
                 <=> (face_history[t]["alice"] < Confirmations))]_vars

\* C2 amended: the first recognition of a real name closes the episode. Every
\* real name carried by a face_recognized event has count 1; while the history
\* holds a real name a consumed frame with faces is skipped (history unchanged,
\* no event); a (None, []) item empties the history, and with an empty history
\* the next frame with faces is recognized again.
C2_RealNameClosesEpisodeAtOne ==
    [][\A t \in Threads :
         /\ (DecidesOnFaces(t) /\ RealNames(face_history[t]) # {})
              => (pcRec'[t] = "loop" /\ UNCHANGED <<face_history, rec_event>>)
         /\ (DecidesOnFaces(t) /\ face_history[t] = EmptyHist)
              => pcRec'[t] # "loop"
         /\ ConsumesNoFace(t) => face_history'[t] = EmptyHist
         /\ Updates(t)
              => /\ rec_event'.usernames = face_history'[t]
                 /\ \A n \in RealNames(face_history'[t]) :
                       face_history'[t][n] = 1
      ]_vars

\* C2 witness: with history {"alice": 1} a later frame showing alice was
\* consumed and skipped.
C2_Witness ==
    \E t \in Threads :
        /\ SkippedFaces(t)
        /\ item[t].bboxes = <<0>>
        /\ face_history[t] = [n \in {"alice"} |-> 1]

\* C3 as stated: a history holding only "unknown" never blocks recognition of
\* a consumed item with faces, whatever the count.
C3_UnknownNeverSkips ==
    [][\A t \in Threads :
         (DecidesOnFaces(t) /\ DOMAIN face_history[t] = {None})
           => pcRec'[t] # "loop"]_vars

\* C3 amended: a history holding only "unknown" lets recognition run while the
\* count is below 3 and blocks it once the count is 3; the count never
\* exceeds 3.
C3_UnknownClosesEpisodeAtThree ==
    [][\A t \in Threads :
         /\ (DecidesOnFaces(t) /\ DOMAIN face_history[t] = {None})
              => ((pcRec'[t] # "loop")
                    <=> (face_history[t][None] < Confirmations))
         /\ None \in DOMAIN face_history'[t]
              => face_history'[t][None] <= Confirmations
      ]_vars

\* C3 witness: with history {None: 3} a later frame with faces was consumed and
\* skipped.
C3_Witness ==
    \E t \in Threads :
        /\ SkippedFaces(t)
        /\ face_history[t] = [n \in {None} |-> Confirmations]

\* C4: a capture call of a detector of the feature runs only while the camera
\* is on, and stop() reaches its camera.stop only after the detector and
\* recognizer threads of the feature have ended.
C4_NoCaptureAfterCameraStop ==
    /\ \A t \in Threads : pcDet[t] = "capture" => camera_on
    /\ pcCtl = "camera_stop"
         => \A t \in Threads : ~Alive(pcDet[t]) /\ ~Alive(pcRec[t])

\* C5: once stop() has set the flag, stop() eventually returns.
C5_StopReturns ==
    (pcCtl \in {"join_recognizer", "join_wakeface", "camera_stop"}) ~> (pcCtl = "idle")

\* the frames counted for one name belong to one episode: no frame between
\* them showed no looking face
OneEpisode(src) ==
    \A n \in DOMAIN src : \A a, b \in src[n] : \A k \in a..b : k \notin no_det

\* C6: consuming (None, []) leaves the history empty, and no face_recognized
\* event counts frames from both sides of a NO_FACE / FACES_NOT_LOOKING frame.
C6_HistoryClearedAtEpisodeEnd ==
    [][\A t \in Threads :
         /\ ConsumesNoFace(t) => face_history'[t] = EmptyHist
         /\ Updates(t)
              => /\ OneEpisode(rec_event'.src)
                 /\ \A n \in DOMAIN face_history'[t] :
                       face_history'[t][n] = Cardinality(rec_event'.src[n])
      ]_vars

\* C7: an iteration that ends in NO_FACE or FACES_NOT_LOOKING drains the
\* mailbox, publishes (None, []) and returns to the loop whatever the
\* recognizer does meanwhile: draining never ends the thread with queue.Empty.
C7_NoDetectionIterationCompletes ==
    \A t \in Threads : ~(pcDet[t] = "raised" /\ exc.det[t] = "queue.Empty")

\* the number of matching store entries that carry a name
Votes(names, idxs, n) == Cardinality({i \in idxs : names[i] = n})

\* the first matching store entry that carries a name
FirstIdx(names, idxs, n) ==
    CHOOSE i \in idxs : names[i] = n /\ \A j \in idxs : names[j] = n => i <= j

\* the name with the most matching entries; among names with equally many,
\* the one whose first matching entry comes first in store order
Winner(names, idxs) ==
    LET keys == {names[i] : i \in idxs}
    IN  CHOOSE n \in keys : \A m \in keys :
            \/ Votes(names, idxs, n) > Votes(names, idxs, m)
            \/ /\ Votes(names, idxs, n) = Votes(names, idxs, m)
               /\ FirstIdx(names, idxs, n) <= FirstIdx(names, idxs, m)

\* a step in which recognize appends the name of one more encoding
NameAppended(t) == Len(rec_names'[t]) = Len(rec_names[t]) + 1

\* C11: for each embedding recognize returns the name with the highest number
\* of matching store entries, ties going to the name whose first matching
\* entry comes first in store order; with no matching entry (as with an empty
\* store) it returns None, which is no name of the store; and the first
\* recognition of one unmatched face makes the history {None: 1}.
C11_RecognizeReturnsWinner ==
    [][\A t \in Threads :
         /\ NameAppended(t)
              => LET m == Matches(db_encodings,
                                  item[t].bboxes[Len(rec_names[t]) + 1])
                 IN  rec_names'[t][Len(rec_names'[t])] =
                        IF m = {} THEN None ELSE Winner(db_names, m)
         /\ None \notin Range(db_names)
         /\ (Updates(t) /\ face_history[t] = EmptyHist
               /\ rec_names[t] = <<None>>)
              => face_history'[t] = [n \in {None} |-> 1]
      ]_vars

\* C11 witness: against the store (bob, alice, alice), whose first two entries
\* match the face, recognize has returned bob: one matching entry each, and
\* bob's comes first.
C11_Witness ==
    \E t \in Threads :
        /\ pcRec[t] = "update"
        /\ db_names = <<"bob", "alice", "alice">>
        /\ db_encodings = <<0, 0, 10>>
        /\ item[t].bboxes = <<0>>
        /\ rec_names[t] = <<"bob">>

\* C15: a failure of the detection model (detect_faces) or of the embedding
\* model (face_encodings) during one iteration is treated as "no detections":
\* neither thread terminates because of the failure.
C15_ModelFailureKeepsThreadsRunning ==
    \A t \in Threads :
        /\ ~(pcDet[t] = "raised" /\ exc.det[t] = "detect_faces")
        /\ ~(pcRec[t] = "raised" /\ exc.rec[t] = "face_encodings")

\* C17 as stated: an update adds one to the count of every name of the current
\* result (0 if absent), and every name of the history that is absent from
\* the current result keeps its entry and its count.
C17_AbsentNamesKeepTheirCount ==
    [][\A t \in Threads :
         Updates(t)
           => /\ \A n \in Range(rec_names[t]) :
                    /\ n \in DOMAIN face_history'[t]
                    /\ face_history'[t][n] = Get(face_history[t], n) + 1
              /\ \A n \in (DOMAIN face_history[t]) \ Range(rec_names[t]) :
                    /\ n \in DOMAIN face_history'[t]
                    /\ face_history'[t][n] = face_history[t][n]
      ]_vars

\* C17 amended: after an update the history holds exactly the names of the
\* current result, each with its previous count plus one (0 if absent); a
\* name of the history that is absent from the current result is dropped. The
\* face_recognized call carries this new history.
C17_UpdateKeepsOnlyCurrentNames ==
    [][\A t \in Threads :
         Updates(t)
           => /\ DOMAIN face_history'[t] = Range(rec_names[t])
              /\ \A n \in Range(rec_names[t]) :
                    face_history'[t][n] = Get(face_history[t], n) + 1
              /\ \A n \in (DOMAIN face_history[t]) \ Range(rec_names[t]) :
                    n \notin DOMAIN face_history'[t]
              /\ rec_event'.usernames = face_history'[t]
      ]_vars

\* C17 witness: recognize has returned ["alice"] for a frame while the history
\* is {None: 1}; the update that follows drops the None entry.
C17_Witness ==
    \E t \in Threads :
        /\ pcRec[t] = "update"
        /\ face_history[t] = [n \in {None} |-> 1]
        /\ Range(rec_names[t]) = {"alice"}

\* C18: whenever a detector is at a statement that clears or publishes to
\* the mailbox, the recognizer started by the same start() has already created
\* the queue, so that the detector never touches an uncreated mailbox (no
\* AttributeError on None) and never uses the queue of an earlier run.
C18_DetectorUsesRecognizersQueue ==
    \A t \in Threads :
        /\ pcDet[t] \in {"clear", "get", "put"} => pcRec[t] # "init"
        /\ ~(pcDet[t] = "raised" /\ exc.det[t] = "AttributeError")

\* C19 as stated: a face_recognized call is delivered only while the last
\* event of the detector is face_listen, that is, never between a not_faces or
\* face_not_listen and the next face_listen.
C19_RecognizedOnlyAfterFaceListen ==
    [][\A t \in Threads : Updates(t) => det_event.name = "face_listen"]_vars

\* C19 amended: every frame counted by a face_recognized call showed a looking
\* face, and the detector emitted face_listen for it before the call; events
\* the detector emitted for later frames may precede the call.
C19_RecognizedAfterItsFaceListen ==
    [][\A t \in Threads :
         Updates(t)
           => \A n \in DOMAIN rec_event'.src : \A f \in rec_event'.src[n] :
                 /\ f \notin no_det
                 /\ f \in listened
      ]_vars

\* C19 witness: a recognizer is about to deliver face_recognized for a frame
\* while the last event of the detector is the not_faces or face_not_listen
\* of a later frame.
C19_Witness ==
    \E t \in Threads :
        /\ pcRec[t] = "update"
        /\ det_event.name \in {"not_faces", "face_not_listen"}
        /\ det_event.frame > item[t].frame

----------------------------------------------------------------------------
(* Properties of the enrollment loop and of the store. *)

\* a / b < c / d for fractions with positive denominators
Less(x, y) == x.num * y.den < y.num * x.den

\* _run is between two iterations, or has left the loop
BetweenIterations(t) ==
    pcEnr[t] \in {"loop", "capture", "camera_stop", "done"}

\* C8: an enrollment loop never runs past n_frames accepted captures and,
\* unless it is cancelled, leaves only at n_frames; every iteration with an
\* accepted face makes one FaceDB.append call, which adds one name to the
\* store; the progress values of the loop are counter*100/n_frames, strictly
\* increasing, and the last one of a completed run is 100.
C8_EnrollmentStopsAtNFrames ==
    \A t \in Threads :
        LET progress == ProgressOf(t)
        IN  /\ counter[t] <= n_frames
            /\ Len(db_names) = Len(appendLog)
            /\ pcEnr[t] \in {"capture", "append_names"} => counter[t] < n_frames
            /\ BetweenIterations(t) => counter[t] = accepted[t]
            /\ appended[t] =
                  accepted[t] - (IF pcEnr[t] = "append_names" THEN 1 ELSE 0)
            /\ Len(progress) = counter[t]
            /\ \A i \in 1..Len(progress) : progress[i] = Progress(i)
            /\ \A i, j \in 1..Len(progress) :
                  i < j => Less(progress[i], progress[j])
            /\ (pcEnr[t] \in {"camera_stop", "done"} /\ ~cancelled[t])
                  => /\ counter[t] = n_frames
                     /\ progress[Len(progress)].num
                           = 100 * progress[Len(progress)].den

\* C8 witness: a run left the loop after n_frames accepted captures, having
\* also captured a frame without an accepted face, and the store holds
\* n_frames more entries.
C8_Witness ==
    \E t \in Threads :
        /\ pcEnr[t] = "done"
        /\ ~cancelled[t]
        /\ counter[t] = n_frames
        /\ r_captured > n_frames
        /\ Len(db_names) = Len(InitNames) + n_frames

\* C9: once an enrollment thread has ended, however it ended, the camera it
\* acquired has been released.
C9_CameraReleasedOnEveryExit ==
    (/\ \E t \in Threads : pcEnr[t] \in {"done", "raised"}
     /\ \A t \in Threads : ~Alive(pcEnr[t]))
      => ~camera_on

\* the names that were appended (or loaded) together with an embedding that
\* matches the face
NamesOfMatches(face) ==
    {appendLog[k][1] : k \in {j \in 1..Len(appendLog) :
                                 Dist(appendLog[j][2], face) <= Tolerance}}

\* C10: for every interleaving of FaceDB.append with a recognize call in
\* progress, every matched index the recognizer resolves refers to an
\* existing names entry, and that entry is the name appended together with
\* the matched embedding: a name whose embedding matches the face.
C10_MatchedIndexResolves ==
    \A t \in Threads :
        pcRec[t] = "resolve"
          => \A i \in matchedIdxs[t] :
                /\ i \in 1..Len(db_names)
                /\ db_names[i] \in NamesOfMatches(item[t].bboxes[rec_k[t]])

\* no FaceDB.append call is between its in-memory updates and its return
NoAppendRunning ==
    \A t \in Threads :
        pcEnr[t] \notin {"append_encodings", "append_assign", "write"}

\* C12: after any sequence of FaceDB.append calls that returned, a reload of
\* the store from the file (one that read the file as it is now) yields, in
\* the same order, the appended entries: the same names and the same
\* embedding components.
C12_ReloadYieldsAppendedEntries ==
    (/\ pcLoad = "done"
     /\ \A t \in Threads : ~Alive(pcEnr[t])
     /\ load_rows = db_file.rows
     /\ Len(db_file.rows) = Len(appendLog))
      => /\ Len(db_names) = Len(appendLog)
         /\ Len(db_encodings) = Len(appendLog)
         /\ \A i \in 1..Len(appendLog) :
               <<db_names[i], db_encodings[i]>> = appendLog[i]

\* C13: a FaceDB.load of a missing or empty file returns to its caller and
\* leaves an empty store: no names and no embeddings.
C13_LoadDegradesToEmptyStore ==
    (pcLoad \notin {"none", "read"} /\ appendLog = << >>)
      => /\ pcLoad = "done"
         /\ exc.load = ""
         /\ db_loaded
         /\ db_names = << >>
         /\ db_encodings = << >>

\* C20: whenever no FaceDB.append call is running, the names list and the
\* embedding matrix have equal length and hold exactly the rows of the file;
\* in particular an append whose file write failed has left the in-memory
\* store as it was.
C20_StoreMatchesFile ==
    NoAppendRunning
      => /\ Len(db_names) = Len(db_encodings)
         /\ Len(db_names) = Len(db_file.rows)
         /\ \A i \in 1..Len(db_names) :
               i <= Len(db_file.rows)
                 => Row(db_names[i], db_encodings[i]) = db_file.rows[i]

----------------------------------------------------------------------------
(* Properties of check_looking. *)

\* the eye-tragion x-span, and twice the span from the mean eye height to
\* the mouth, of a face of the inputs (whose coordinates are integers)
SpanX(face) == face.xr.num - face.xl.num
SpanY2(face) == 2 * face.ym.num - face.ye1.num - face.ye2.num

Degenerate(face) == SpanX(face) = 0 \/ SpanY2(face) = 0

\* a point at offset a along a span d # 0 lies between the fractions t and
\* 1 - t of the span, bounds included
InBand(a, d, t) ==
    IF d > 0
    THEN t.num * d <= t.den * a /\ t.den * a <= (t.den - t.num) * d
    ELSE t.num * d >= t.den * a /\ t.den * a >= (t.den - t.num) * d

\* C14: for a face whose eye-tragion x-span or whose eye-to-mouth y-span is
\* zero, check_looking returns false without raising, and the filter of the
\* detection loop goes on to its FACES_NOT_LOOKING branch.
C14_DegenerateGeometryIsRejected ==
    (pcGaze # "call" /\ Degenerate(g_face))
      => /\ pcGaze \in {"returned", "face_not_listen"}
         /\ ~g_looking

\* C14 witness: the filter has rejected a face whose two eye-tragions have the
\* same x and whose nose tip is elsewhere.
C14_Witness ==
    /\ pcGaze = "face_not_listen"
    /\ SpanX(g_face) = 0
    /\ g_face.xn # g_face.xl
    /\ SpanY2(g_face) # 0

\* C16: for a face with non-zero spans and every tolerance, check_looking
\* accepts exactly when the nose tip lies, in x, between the fractions
\* tolerance and 1 - tolerance of the way from the left to the right
\* eye-tragion and, in y, between the same fractions of the way from the mean
\* eye height to the mouth; a nose tip at the x of either eye-tragion is
\* rejected for every tolerance > 0.
C16_AcceptsExactlyInsideTheBand ==
    (pcGaze # "call" /\ ~Degenerate(g_face))
      => /\ pcGaze # "raised"
         /\ g_looking <=>
               /\ InBand(g_face.xn.num - g_face.xl.num, SpanX(g_face), g_incr)
               /\ InBand(2 * g_face.yn.num - g_face.ye1.num - g_face.ye2.num,
                         SpanY2(g_face), g_incr)
         /\ (g_incr.num > 0 /\ g_face.xn \in {g_face.xl, g_face.xr}) => ~g_looking

\* C16 witness: with tolerance 1/4 a face is accepted whose nose tip is on
\* both lower bounds: a quarter of the way between the eye-tragions, which
\* are mirrored (right at 0, left at MaxCoord), and a quarter of the way down.
C16_Witness ==
    /\ pcGaze = "returned"
    /\ g_looking
    /\ g_incr = Fin(1, 4)
    /\ SpanX(g_face) < 0
    /\ 4 * (g_face.xn.num - g_face.xl.num) = SpanX(g_face)
    /\ 4 * (2 * g_face.yn.num - g_face.ye1.num - g_face.ye2.num) = SpanY2(g_face)


----------------------------------------------------------------------------
(* Properties of EvaLed. *)

\* no call of set is between its assignment of the state (line 141) and its
\* return: the call that installed the current state has returned
SetReturned == \A c \in Callers : pcSet[c] # "assigned"

\* an animation thread passes to led.set a colour that an earlier state
\* computed
WritesPreviousColor(t) ==
    /\ pcRun[t] = "got"
    /\ pcRun'[t] = "loop"
    /\ next_color[t].val # NoColor
    /\ next_color[t].src # led_state.id

\* C21: once set(S) has returned, with S different from the previous state,
\* no animation thread writes to the LEDs a colour computed from the
\* previous state, for every interleaving of set with the animation loop.
C21_NoWriteFromPreviousState ==
    [][SetReturned => \A t \in Threads : ~WritesPreviousColor(t)]_vars

\* an outcome the claim excludes: set(StaticColor(c)) has returned, no call
\* of set is under way, no animation thread has a write pending, and the
\* LEDs show a level of an animation instead of c
StaleStaticColor ==
    /\ led_state.cls = "StaticColor"
    /\ \A c \in Callers : pcSet[c] = "idle"
    /\ \A t \in Threads : pcRun[t] \in {"loop", "none", "done"}
    /\ pcLedCtl = "idle"
    /\ leds.form \in {"dict", "list"}

====
